---------------------------- MODULE Spec2Model ----------------------------
(***************************************************************************)
(* Model of tame's SessionManager (src/tame/session/manager.py) with the   *)
(* dual-axis state model of src/tame/session/state.py.                     *)
(*                                                                         *)
(* PTY output is a sequence of abstract bytes.  Each abstract byte stands  *)
(* for a class of real text:                                               *)
(*   "e"  text matching an error regex          (e.g. "error:")            *)
(*   "p"  text matching a strong prompt regex   (e.g. "[y/n]")             *)
(*   "q"  a question mark (weak prompt when it ends the line)              *)
(*   "c"  the text "task completed" (a completion only as a whole line)    *)
(*   "g"  text matching a progress regex        (e.g. "50%")               *)
(*   "n"  the newline                                                      *)
(*   "A"  the opening of a CSI escape sequence  (ESC [ parameters)         *)
(*   "m"  the final byte of a CSI sequence; on its own a plain letter      *)
(*   "L"  the lead byte of a two-byte UTF-8 sequence with no continuation  *)
(* and "x" is the replacement character the decoder produces.              *)
(*                                                                         *)
(* Spec is the whole life of a session with reads that end at a line       *)
(* boundary; SpecText is one session under reads of several lines with an  *)
(* unfinished tail.                                                        *)
(***************************************************************************)
EXTENDS Integers, Sequences, FiniteSets, TLC

\* ---------------------------------------------------------------- bounds
MaxChunk == 2         \* Spec: longest read, in bytes
MaxTextLines == 2     \* SpecText: most pieces (lines, unfinished tail) of a read
MaxTextPartial == 1   \* SpecText: longest line body and unfinished line
ScreenColumns == 2    \* SpecScreen: the columns of the screen
MaxModes == 2         \* SpecScreen: most modes of one set_mode or reset_mode call
MaxOutput == 2        \* SpecViewer: most chunks of output of one session
BufferMaxlen == 2     \* SpecBuffer: the capacity of the OutputBuffer, in lines
MaxAppend == 2        \* SpecBuffer: longest text of one append
MaxAppended == 6      \* SpecBuffer: most characters appended in all
InputHistoryCap == 2  \* SpecKeys: most entries of a session's input history
MaxLine == 2          \* SpecKeys: longest line typed
MaxCategories == 2    \* SpecMatcher: most categories of a PatternMatcher
MaxPatterns == 2      \* SpecMatcher: most patterns of a category
MaxScanLine == 2      \* SpecMatcher: longest line scanned
HistoryMaxSize == 2   \* SpecEngine: the capacity of the notification history
MaxDispatches == 4    \* SpecEngine: most dispatches

SessionIds == {"s1"}
\* what the reads of Spec are made of
Bytes == {"e", "p", "q", "c", "n", "L"}
\* what the lines of the reads of SpecText are made of
TextLetters == {"e", "p", "q", "c"}

\* ------------------------------------------------- configuration (ticks)
state_debounce_seconds == 1
idle_prompt_timeout == 2
idle_threshold == 3

\* Instants are kept relative to the present: the current reading of the
\* clock is the origin, a stored deadline is its distance from the present,
\* and the passing of time (Tick) moves every stored deadline one tick
\* closer.  A deadline that has passed stays at the origin.
now == 0

None == "None"
\* an optional integer (an exit status): no value, or the value
NoCode == <<>>
Code(v) == <<v>>
\* what dict.get returns for a missing text entry: equal to no text
Missing == <<None>>

\* ------------------------------------------------------- state.py tables
ProcessState == {"STARTING", "RUNNING", "PAUSED", "EXITED"}
AttentionState == {"NONE", "NEEDS_INPUT", "ERROR_SEEN", "IDLE"}
SessionState ==
    {"CREATED", "STARTING", "ACTIVE", "IDLE", "WAITING", "PAUSED", "DONE", "ERROR"}

VALID_PROCESS_TRANSITIONS ==
    [ps \in ProcessState |->
        CASE ps = "STARTING" -> {"RUNNING", "EXITED"}
          [] ps = "RUNNING" -> {"PAUSED", "EXITED"}
          [] ps = "PAUSED" -> {"RUNNING", "EXITED"}
          [] ps = "EXITED" -> {}]

VALID_ATTENTION_TRANSITIONS ==
    [as \in AttentionState |->
        CASE as = "NONE" -> {"NEEDS_INPUT", "ERROR_SEEN", "IDLE"}
          [] as = "NEEDS_INPUT" -> {"NONE", "ERROR_SEEN"}
          [] as = "ERROR_SEEN" -> {"NONE", "NEEDS_INPUT"}
          [] as = "IDLE" -> {"NONE", "NEEDS_INPUT", "ERROR_SEEN"}]

PRIORITY_ATTENTION_STATES == {"ERROR_SEEN", "NEEDS_INPUT"}
PRIORITY_PROCESS_STATES == {"EXITED"}

is_valid_process_transition(current, target) ==
    target \in VALID_PROCESS_TRANSITIONS[current]

is_valid_attention_transition(current, target) ==
    target \in VALID_ATTENTION_TRANSITIONS[current]

compute_session_state(process, attention) ==
    IF process = "STARTING" THEN "STARTING"
    ELSE IF process = "PAUSED" THEN "PAUSED"
    ELSE IF process = "EXITED"
         THEN (IF attention = "ERROR_SEEN" THEN "ERROR" ELSE "DONE")
    ELSE IF attention = "NEEDS_INPUT" THEN "WAITING"
    ELSE IF attention = "ERROR_SEEN" THEN "ERROR"
    ELSE IF attention = "IDLE" THEN "IDLE"
    ELSE "ACTIVE"

status(s) == compute_session_state(s.process_state, s.attention_state)

\* ------------------------------------------------------ text processing
RECURSIVE strip_ansi(_)
strip_ansi(text) ==
    IF Len(text) = 0 THEN <<>>
    ELSE IF Len(text) >= 2 /\ text[1] = "A" /\ text[2] = "m"
         THEN strip_ansi(SubSeq(text, 3, Len(text)))
    ELSE <<text[1]>> \o strip_ansi(Tail(text))

\* str.split("\n"): the pieces between newlines, always at least one piece
RECURSIVE split_lines(_)
split_lines(text) ==
    IF \A i \in 1..Len(text) : text[i] # "n" THEN <<text>>
    ELSE LET k == CHOOSE i \in 1..Len(text) :
                      text[i] = "n" /\ \A j \in 1..(i - 1) : text[j] # "n"
         IN <<SubSeq(text, 1, k - 1)>> \o split_lines(SubSeq(text, k + 1, Len(text)))

Has(line, ch) == \E i \in 1..Len(line) : line[i] = ch

SCAN_ORDER == <<"error", "prompt", "completion", "progress">>

\* does some regex of the category match the line
category_matches(category, line) ==
    CASE category = "error" -> Has(line, "e")
      [] category = "prompt" -> Has(line, "p")
      [] category = "completion" -> line = <<"c">>
      [] category = "progress" -> Has(line, "g")
      [] category = "weak_prompt" -> Len(line) > 0 /\ line[Len(line)] = "q"
      [] OTHER -> FALSE

scan(line) ==
    IF \E i \in 1..Len(SCAN_ORDER) : category_matches(SCAN_ORDER[i], line)
    THEN SCAN_ORDER[CHOOSE i \in 1..Len(SCAN_ORDER) :
            /\ category_matches(SCAN_ORDER[i], line)
            /\ \A j \in 1..(i - 1) : ~category_matches(SCAN_ORDER[j], line)]
    ELSE IF category_matches("weak_prompt", line) THEN "weak_prompt"
    ELSE None

\* codecs incremental utf-8 decoder with errors="replace": returns the text
\* and whether an incomplete sequence is still buffered
RECURSIVE utf8_decode(_, _, _)
utf8_decode(pending, data, final) ==
    IF Len(data) = 0
    THEN [text |-> IF final /\ pending THEN <<"x">> ELSE <<>>,
          pending |-> pending /\ ~final]
    ELSE LET b == data[1]
             rest == utf8_decode(b = "L", Tail(data), final)
             here == (IF pending THEN <<"x">> ELSE <<>>)
                        \o (IF b = "L" THEN <<>> ELSE <<b>>)
         IN [text |-> here \o rest.text, pending |-> rest.pending]

\* ------------------------------------------------------------------ state
VARIABLES
    sessions,               \* SessionManager._sessions: id -> Session
    scan_partials,          \* SessionManager._scan_partials
    last_scanned_partial,   \* SessionManager._last_scanned_partial
    debounce_until,         \* SessionManager._debounce_until
    weak_prompt_timers,     \* SessionManager._weak_prompt_timers: id -> deadline
    idle_timers,            \* SessionManager._idle_timers: id -> deadline
    utf8_decoders,          \* SessionManager._utf8_decoders: id -> bytes pending
    scheduled,              \* the event loop's pending call_later handles
    loop,                   \* SessionManager._loop is set
    created,                \* the ids create_session has issued so far
    elapsed,                \* per session, the ticks since its last transition
                            \* and since its last read or input
    emitted,                \* what the last operation handed to the callbacks
    screen,                 \* a TAMEScreen, with the buffer objects it refers to
    app,                    \* the TAMEApp's output dispatch, with its SessionViewer
    buffer,                 \* an OutputBuffer, with the text appended to it
    engine,                 \* a NotificationEngine, with its last dispatch
    matcher,                \* a PatternMatcher, with its last scan
    health,                 \* the TAMEApp's tmux health check and the tmux server
    executor                \* the resource poll's executor task and the reactor's
                            \* place in a registry operation

\* the variables of the SessionManager and of its observation
manager_vars == <<sessions, scan_partials, last_scanned_partial, debounce_until,
                  weak_prompt_timers, idle_timers, utf8_decoders, scheduled, loop,
                  created, elapsed, emitted>>

\* the variables of the terminal side
ui_vars == <<screen, app, buffer, engine, matcher, health, executor>>

\* all the variables but one
all_but_screen == <<manager_vars, app, buffer, engine, matcher, health, executor>>
all_but_app == <<manager_vars, screen, buffer, engine, matcher, health, executor>>
all_but_buffer == <<manager_vars, screen, app, engine, matcher, health, executor>>
all_but_engine == <<manager_vars, screen, app, buffer, matcher, health, executor>>
all_but_matcher == <<manager_vars, screen, app, buffer, engine, health, executor>>
ui_but_health == <<screen, app, buffer, engine, matcher, executor>>
ui_but_executor == <<screen, app, buffer, engine, matcher, health>>

vars == <<manager_vars, ui_vars>>

\* the mutable part of the manager, as one value the handlers transform
Cur ==
    [sessions |-> sessions,
     scan_partials |-> scan_partials,
     last_scanned_partial |-> last_scanned_partial,
     debounce_until |-> debounce_until,
     weak_prompt_timers |-> weak_prompt_timers,
     idle_timers |-> idle_timers,
     utf8_decoders |-> utf8_decoders,
     scheduled |-> scheduled,
     emitted |-> <<>>]

\* Observation of the transitions, for the statements about time: for each
\* session the ticks since a transition last changed process_state or
\* attention_state ("any") and since one last changed the display state
\* ("display"), counted up to the length of the debounce window; the ticks
\* since the session's last read, end of file or input, or since its creation
\* ("quiet"), counted up to idle_threshold; and whether the last of these
\* reads and inputs was a read that armed the weak-prompt timer ("weak_armed"),
\* and then the attention state it left the session in ("attention_then").
Disturbed(trace, sid) ==
    \E i \in 1..Len(trace) :
        trace[i].sid = sid /\ trace[i].kind \in {"read", "write", "raise"}

ArmedWeak(trace, sid) ==
    \E i \in 1..Len(trace) :
        /\ trace[i].sid = sid
        /\ trace[i].kind = "call_later"
        /\ trace[i].callback = "fire_weak_prompt"

Observed(before, after, was, trace) ==
    [sid \in DOMAIN after |->
        IF sid \in DOMAIN before /\ sid \in DOMAIN was
        THEN [any |-> IF \/ after[sid].process_state # before[sid].process_state
                         \/ after[sid].attention_state # before[sid].attention_state
                      THEN 0 ELSE was[sid].any,
              display |-> IF status(after[sid]) # status(before[sid])
                          THEN 0 ELSE was[sid].display,
              quiet |-> IF Disturbed(trace, sid) THEN 0 ELSE was[sid].quiet,
              weak_armed |-> IF Disturbed(trace, sid)
                             THEN ArmedWeak(trace, sid)
                             ELSE was[sid].weak_armed,
              attention_then |-> IF Disturbed(trace, sid)
                                 THEN (IF ArmedWeak(trace, sid)
                                       THEN after[sid].attention_state
                                       ELSE None)
                                 ELSE was[sid].attention_then]
        ELSE [any |-> state_debounce_seconds, display |-> state_debounce_seconds,
              quiet |-> 0, weak_armed |-> FALSE,
              attention_then |-> None]]

\* the manager becomes the result of an operation
CommitManager(result) ==
    \E m \in {result} :
    /\ elapsed' = Observed(sessions, m.sessions, elapsed, m.emitted)
    /\ sessions' = m.sessions
    /\ scan_partials' = m.scan_partials
    /\ last_scanned_partial' = m.last_scanned_partial
    /\ debounce_until' = m.debounce_until
    /\ weak_prompt_timers' = m.weak_prompt_timers
    /\ idle_timers' = m.idle_timers
    /\ utf8_decoders' = m.utf8_decoders
    /\ scheduled' = m.scheduled
    /\ emitted' = m.emitted

Commit(result) ==
    /\ CommitManager(result)
    /\ UNCHANGED ui_vars

\* dict helpers
Get(d, k, default) == IF k \in DOMAIN d THEN d[k] ELSE default
Pop(d, k) == [x \in (DOMAIN d) \ {k} |-> d[x]]
Put(d, k, v) == (k :> v) @@ d
Empty == [x \in {} |-> None]

\* ------------------------------------------------------------ PTYProcess
is_alive(p) == p.child # "exited"
pty_exit_code(p) == IF p.child = "exited" THEN p.returncode ELSE NoCode

\* ---------------------------------------------------- debounce and setters
\* the window test with its comparison the wrong way round
is_debounced_reversed(m, sid) ==
    LET deadline == Get(m.debounce_until, sid, 0)
    IN IF deadline <= 0 THEN FALSE ELSE deadline < now

is_debounced(m, sid) ==
    LET deadline == Get(m.debounce_until, sid, 0)
    IN IF deadline <= 0 THEN FALSE ELSE now < deadline

stamp_debounce(m, sid) ==
    IF state_debounce_seconds > 0
    THEN [m EXCEPT !.debounce_until = Put(@, sid, now + state_debounce_seconds)]
    ELSE m

\* One entry of the trace of an operation: a call the manager made out of
\* itself.  "status" is on_status_change(sid, old, new, _), with the axis whose
\* setter made the call; "output" is on_output(sid, text); "append" is
\* OutputBuffer.append_data(text); "scan" is the pass of the chunk's lines
\* through PatternMatcher.scan; "write" is PTYProcess.write(text); "raise" is
\* an exception leaving the operation.
Event(kind, sid, old, new, axis) ==
    [kind |-> kind, sid |-> sid, old |-> old, new |-> new, axis |-> axis]

on_status_change(m, sid, old_status, new_status, axis) ==
    [m EXCEPT !.emitted =
        Append(@, Event("status", sid, old_status, new_status, axis))]

\* the setter without its validation
set_process_state_unvalidated(m, sid, new_ps) ==
    LET session == m.sessions[sid]
    IN IF new_ps \notin PRIORITY_PROCESS_STATES /\ is_debounced(m, sid) THEN m
       ELSE LET old_status == status(session)
                m2 == [m EXCEPT !.sessions[sid].process_state = new_ps]
                new_status == status(m2.sessions[sid])
            IN IF old_status # new_status
               THEN on_status_change(stamp_debounce(m2, sid), sid,
                                     old_status, new_status, "process")
               ELSE m2

set_process_state(m, sid, new_ps) ==
    LET session == m.sessions[sid]
    IN IF ~is_valid_process_transition(session.process_state, new_ps) THEN m
       ELSE IF new_ps \notin PRIORITY_PROCESS_STATES /\ is_debounced(m, sid) THEN m
       ELSE LET old_status == status(session)
                m2 == [m EXCEPT !.sessions[sid].process_state = new_ps]
                new_status == status(m2.sessions[sid])
            IN IF old_status # new_status
               THEN on_status_change(stamp_debounce(m2, sid), sid,
                                     old_status, new_status, "process")
               ELSE m2

\* the setter without its validation
set_attention_state_unvalidated(m, sid, new_as) ==
    LET session == m.sessions[sid]
    IN IF new_as \notin PRIORITY_ATTENTION_STATES /\ is_debounced(m, sid) THEN m
       ELSE LET old_status == status(session)
                m2 == [m EXCEPT !.sessions[sid].attention_state = new_as]
                new_status == status(m2.sessions[sid])
            IN IF old_status # new_status
               THEN on_status_change(stamp_debounce(m2, sid), sid,
                                     old_status, new_status, "attention")
               ELSE m2

\* the setter calling back and stamping whether or not the display state
\* changed
set_attention_state_always_calling(m, sid, new_as) ==
    LET session == m.sessions[sid]
    IN IF ~is_valid_attention_transition(session.attention_state, new_as) THEN m
       ELSE IF new_as \notin PRIORITY_ATTENTION_STATES /\ is_debounced(m, sid) THEN m
       ELSE LET old_status == status(session)
                m2 == [m EXCEPT !.sessions[sid].attention_state = new_as]
                new_status == status(m2.sessions[sid])
            IN on_status_change(stamp_debounce(m2, sid), sid,
                                old_status, new_status, "attention")

set_attention_state(m, sid, new_as) ==
    LET session == m.sessions[sid]
    IN IF ~is_valid_attention_transition(session.attention_state, new_as) THEN m
       ELSE IF new_as \notin PRIORITY_ATTENTION_STATES /\ is_debounced(m, sid) THEN m
       ELSE LET old_status == status(session)
                m2 == [m EXCEPT !.sessions[sid].attention_state = new_as]
                new_status == status(m2.sessions[sid])
            IN IF old_status # new_status
               THEN on_status_change(stamp_debounce(m2, sid), sid,
                                     old_status, new_status, "attention")
               ELSE m2

\* ------------------------------------------------------------------ timers
\* A handle of loop.call_later: the callback, its argument and its instant.
\* The dicts of the manager keep, for a handle, its instant.
Handle(callback, sid, at) == [callback |-> callback, sid |-> sid, at |-> at]

\* loop.call_later(delay, callback, sid); the trace keeps the call
call_later(m, delay, callback, sid) ==
    [m EXCEPT !.scheduled = @ \cup {Handle(callback, sid, now + delay)},
              !.emitted = Append(@,
                  [kind |-> "call_later", sid |-> sid, old |-> None, new |-> None,
                   axis |-> None, callback |-> callback])]

\* the loop drops a handle: it was cancelled, or it is being called
drop(m, handle) == [m EXCEPT !.scheduled = @ \ {handle}]

\* handle.cancel(); the trace keeps the call
cancel(m, handle) ==
    [drop(m, handle) EXCEPT !.emitted = Append(@,
        [kind |-> "cancel", sid |-> handle.sid, old |-> None, new |-> None,
         axis |-> None, callback |-> handle.callback])]

cancel_weak_prompt_timer(m, sid) ==
    IF sid \in DOMAIN m.weak_prompt_timers
    THEN cancel([m EXCEPT !.weak_prompt_timers = Pop(@, sid)],
                Handle("fire_weak_prompt", sid, m.weak_prompt_timers[sid]))
    ELSE m

cancel_idle_timer(m, sid) ==
    IF sid \in DOMAIN m.idle_timers
    THEN cancel([m EXCEPT !.idle_timers = Pop(@, sid)],
                Handle("fire_idle_timeout", sid, m.idle_timers[sid]))
    ELSE m

reset_idle_timer(m, sid) ==
    LET m1 == cancel_idle_timer(m, sid)
    IN IF ~loop THEN m1
       ELSE IF idle_threshold <= 0 THEN m1
       ELSE [call_later(m1, idle_threshold, "fire_idle_timeout", sid)
                EXCEPT !.idle_timers = Put(@, sid, now + idle_threshold)]

schedule_weak_prompt(m, sid) ==
    LET m1 == cancel_weak_prompt_timer(m, sid)
    IN IF ~loop
       THEN (IF sid \in DOMAIN m1.sessions
             THEN set_attention_state(m1, sid, "NEEDS_INPUT")
             ELSE m1)
       ELSE [call_later(m1, idle_prompt_timeout, "fire_weak_prompt", sid)
                EXCEPT !.weak_prompt_timers = Put(@, sid, now + idle_prompt_timeout)]

\* ------------------------------------------------------- output processing
Last(seq) == seq[Len(seq)]
Front(seq) == SubSeq(seq, 1, Len(seq) - 1)
MaxOf(S) == CHOOSE i \in S : \A j \in S : j <= i

\* first match wins: the category of the first such line
first_match(complete_lines, cats) ==
    LET hits == {i \in 1..Len(complete_lines) :
                    /\ Len(complete_lines[i]) > 0
                    /\ scan(complete_lines[i]) \in cats}
    IN IF hits = {} THEN None
       ELSE scan(complete_lines[CHOOSE i \in hits : \A j \in hits : i <= j])

\* the category of the last non-empty complete line whose match is in cats
last_match(complete_lines, cats) ==
    LET hits == {i \in 1..Len(complete_lines) :
                    /\ Len(complete_lines[i]) > 0
                    /\ scan(complete_lines[i]) \in cats}
    IN IF hits = {} THEN None ELSE scan(complete_lines[MaxOf(hits)])

\* the chunk never reaches the buffer
append_data_skipped(m, sid, text) == m

append_data(m, sid, text) ==
    [m EXCEPT !.emitted = Append(@, Event("append", sid, None, None, None))]

\* The chunk's lines go to PatternMatcher.scan: the trace keeps what scan
\* returned for each non-empty complete line, in order, and what it returned
\* for the unfinished line, or "unscanned" when that line was not scanned.
RECURSIVE scan_each(_)
scan_each(lines) ==
    IF Len(lines) = 0 THEN <<>>
    ELSE (IF Len(Head(lines)) > 0 THEN <<scan(Head(lines))>> ELSE <<>>)
            \o scan_each(Tail(lines))

scanning(m, sid, complete_lines, partial, rescan) ==
    [m EXCEPT !.emitted = Append(@,
        [kind |-> "scan", sid |-> sid, old |-> None, new |-> None, axis |-> None,
         lines |-> scan_each(complete_lines),
         partial |-> IF rescan THEN scan(partial) ELSE "unscanned"])]

on_output(m, sid, text) ==
    [m EXCEPT !.emitted = Append(@, Event("output", sid, None, None, None))]

\* the final matches of one chunk, applied once: attention first, then process
apply_matches(m, sid, last_attention, last_process) ==
    LET m1 == CASE last_attention = "error" ->
                      set_attention_state(m, sid, "ERROR_SEEN")
                 [] last_attention = "prompt" ->
                      set_attention_state(m, sid, "NEEDS_INPUT")
                 [] last_attention = "weak_prompt" ->
                      schedule_weak_prompt(m, sid)
                 [] OTHER -> m
    IN IF last_process # None THEN set_process_state(m1, sid, "EXITED") ELSE m1

process_output_text(m, sid, text) ==
    LET m1 == append_data(m, sid, text)
        m2 == reset_idle_timer(m1, sid)
        m3 == IF m2.sessions[sid].attention_state = "IDLE"
              THEN set_attention_state(m2, sid, "NONE")
              ELSE m2
        m4 == on_output(cancel_weak_prompt_timer(m3, sid), sid, text)
        cleaned == strip_ansi(text)
        combined == Get(m4.scan_partials, sid, <<>>) \o cleaned
        parts == split_lines(combined)
        complete_lines == Front(parts)
        partial == Last(parts)
        m5 == [m4 EXCEPT !.scan_partials = Put(@, sid, partial)]
        line_attention == last_match(complete_lines, {"error", "prompt", "weak_prompt"})
        last_process == last_match(complete_lines, {"completion"})
        rescan == Len(partial) > 0
                    /\ partial # Get(m5.last_scanned_partial, sid, Missing)
        m6 == IF rescan
              THEN [m5 EXCEPT !.last_scanned_partial = Put(@, sid, partial)]
              ELSE m5
        last_attention == IF rescan /\ scan(partial) \in {"prompt", "weak_prompt"}
                          THEN scan(partial)
                          ELSE line_attention
    IN apply_matches(scanning(m6, sid, complete_lines, partial, rescan),
                     sid, last_attention, last_process)

decode_output_bytes(m, sid, data, final) ==
    LET d == utf8_decode(Get(m.utf8_decoders, sid, FALSE), data, final)
    IN [text |-> d.text,
        m |-> [m EXCEPT !.utf8_decoders =
                  IF final THEN Pop(@, sid) ELSE Put(@, sid, d.pending)]]

on_session_output(m, sid, data) ==
    IF sid \notin DOMAIN m.sessions THEN m
    ELSE IF Len(data) = 0
    THEN LET dec == decode_output_bytes(m, sid, <<>>, TRUE)
             m1 == IF Len(dec.text) > 0
                   THEN process_output_text(dec.m, sid, dec.text)
                   ELSE dec.m
             m2 == cancel_weak_prompt_timer(m1, sid)
             m3 == [m2 EXCEPT !.scan_partials = Pop(@, sid)]
             exit_code == pty_exit_code(m3.sessions[sid].pty_process)
             m4 == [m3 EXCEPT !.sessions[sid].exit_code = exit_code]
             m5 == IF exit_code # Code(0)
                   THEN set_attention_state(m4, sid, "ERROR_SEEN")
                   ELSE m4
         IN set_process_state(m5, sid, "EXITED")
    ELSE LET dec == decode_output_bytes(m, sid, data, FALSE)
         IN IF Len(dec.text) = 0 THEN dec.m
            ELSE process_output_text(dec.m, sid, dec.text)

\* the timer sets NEEDS_INPUT whatever the attention state is
fire_weak_prompt_unguarded(m, sid) ==
    LET m1 == [m EXCEPT !.weak_prompt_timers = Pop(@, sid)]
    IN IF sid \in DOMAIN m1.sessions /\ m1.sessions[sid].process_state = "RUNNING"
       THEN set_attention_state(m1, sid, "NEEDS_INPUT")
       ELSE m1

fire_weak_prompt(m, sid) ==
    LET m1 == [m EXCEPT !.weak_prompt_timers = Pop(@, sid)]
    IN IF sid \notin DOMAIN m1.sessions THEN m1
       ELSE IF /\ m1.sessions[sid].process_state = "RUNNING"
               /\ m1.sessions[sid].attention_state = "NONE"
            THEN set_attention_state(m1, sid, "NEEDS_INPUT")
            ELSE m1

fire_idle_timeout(m, sid) ==
    LET m1 == [m EXCEPT !.idle_timers = Pop(@, sid)]
    IN IF sid \notin DOMAIN m1.sessions THEN m1
       ELSE IF /\ m1.sessions[sid].process_state = "RUNNING"
               /\ m1.sessions[sid].attention_state = "NONE"
            THEN set_attention_state(m1, sid, "IDLE")
            ELSE m1

\* PTYProcess._on_readable: the read (the trace keeps it); an empty read (or
\* EIO) detaches the reader, then the data goes to the manager's callback
on_readable(m, sid, data) ==
    LET m1 == [m EXCEPT !.emitted = Append(@, Event("read", sid, None, None, None))]
    IN on_session_output(
        IF Len(data) = 0 /\ sid \in DOMAIN m.sessions
        THEN [m1 EXCEPT !.sessions[sid].pty_process.eof = TRUE]
        ELSE m1,
        sid, data)

\* --------------------------------------------------------- session control
\* PTYProcess.terminate: SIGTERM (then SIGKILL) and wait; the child is reaped
\* with the status it died with
terminate(p, code) == [p EXCEPT !.child = "exited", !.returncode = Code(code)]

pause_session(m, sid) ==
    IF is_alive(m.sessions[sid].pty_process)
    THEN set_process_state(
            [m EXCEPT !.sessions[sid].pty_process.child = "stopped"], sid, "PAUSED")
    ELSE m

resume_session(m, sid) ==
    IF is_alive(m.sessions[sid].pty_process)
    THEN set_process_state(
            [m EXCEPT !.sessions[sid].pty_process.child = "running"], sid, "RUNNING")
    ELSE m

RECURSIVE stop_each(_, _, _)
stop_each(m, todo, codes) ==
    IF todo = {} THEN m
    ELSE LET sid == CHOOSE x \in todo : TRUE
             p == m.sessions[sid].pty_process
             m1 == IF is_alive(p)
                   THEN set_process_state(
                          [m EXCEPT !.sessions[sid].pty_process = terminate(p, codes[sid])],
                          sid, "EXITED")
                   ELSE m
         IN stop_each(m1, todo \ {sid}, codes)

stop_all(m, codes) == stop_each(m, DOMAIN m.sessions, codes)

\* PTYProcess.write: the text goes to the child
write(m, sid) ==
    [m EXCEPT !.emitted = Append(@, Event("write", sid, None, None, None))]

send_input(m, sid) ==
    LET m1 == reset_idle_timer(write(m, sid), sid)
    IN IF m1.sessions[sid].attention_state \in {"NEEDS_INPUT", "ERROR_SEEN", "IDLE"}
       THEN set_attention_state(m1, sid, "NONE")
       ELSE m1

\* PTYProcess.write raises OSError: send_input ends there, nothing after the
\* write runs, and the exception goes to send_input's caller
write_raises(m, sid) ==
    [m EXCEPT !.emitted = Append(@, Event("raise", sid, None, None, None))]

\* the exception leaves the handler of the app: it reaches the caller
propagates(m, sid) ==
    [m EXCEPT !.emitted = Append(@, Event("uncaught", sid, None, None, None))]

\* TAMEApp.on_key: send_input inside try / except OSError, logged at debug
on_key(m, sid, written) ==
    IF written THEN send_input(m, sid) ELSE write_raises(m, sid)

\* TAMEApp.action_send_sigint, action_send_eof, action_send_tab and
\* _handle_history_pick: send_input is called outside any try
action_send_sigint(m, sid, written) ==
    IF written THEN send_input(m, sid) ELSE propagates(write_raises(m, sid), sid)

action_send_eof(m, sid, written) ==
    IF written THEN send_input(m, sid) ELSE propagates(write_raises(m, sid), sid)

action_send_tab(m, sid, written) ==
    IF written THEN send_input(m, sid) ELSE propagates(write_raises(m, sid), sid)

handle_history_pick(m, sid, written) ==
    IF written THEN send_input(m, sid) ELSE propagates(write_raises(m, sid), sid)

scan_pane_content(m, sid, text) ==
    LET lines == split_lines(strip_ansi(text))
        hits == {i \in 1..Len(lines) : Len(lines[i]) > 0 /\ scan(lines[i]) # None}
        any_match == IF hits = {} THEN None ELSE scan(lines[MaxOf(hits)])
        nonempty == {i \in 1..Len(lines) : Len(lines[i]) > 0}
        chosen == IF nonempty # {} /\ scan(lines[MaxOf(nonempty)]) = "prompt"
                  THEN "prompt"
                  ELSE any_match
    IN CASE chosen = "error" -> set_attention_state(m, sid, "ERROR_SEEN")
         [] chosen = "prompt" -> set_attention_state(m, sid, "NEEDS_INPUT")
         [] chosen = "completion" -> set_process_state(m, sid, "EXITED")
         [] OTHER -> m

\* ------------------------------------------------------------------- CRUD
new_session ==
    [process_state |-> "RUNNING",
     attention_state |-> "NONE",
     exit_code |-> NoCode,
     pty_process |-> [child |-> "running", returncode |-> NoCode, eof |-> FALSE]]

create_session(m, sid) ==
    reset_idle_timer([m EXCEPT !.sessions = Put(@, sid, new_session)], sid)

\* the session is unregistered with its timers left in the loop
delete_session_keeping_timers(m, sid) ==
    [m EXCEPT !.scan_partials = Pop(@, sid),
              !.last_scanned_partial = Pop(@, sid),
              !.weak_prompt_timers = Pop(@, sid),
              !.idle_timers = Pop(@, sid),
              !.debounce_until = Pop(@, sid),
              !.utf8_decoders = Pop(@, sid),
              !.sessions = Pop(@, sid)]

delete_session(m, sid) ==
    LET m1 == [m EXCEPT !.scan_partials = Pop(@, sid),
                        !.last_scanned_partial = Pop(@, sid)]
        m2 == cancel_idle_timer(cancel_weak_prompt_timer(m1, sid), sid)
    IN [m2 EXCEPT !.debounce_until = Pop(@, sid),
                  !.utf8_decoders = Pop(@, sid),
                  !.sessions = Pop(@, sid)]

\* ---------------------------------------------------------------- inputs
\* byte strings of length 1..k
RECURSIVE SeqsUpTo(_, _)
SeqsUpTo(S, k) ==
    IF k = 0 THEN {<<>>}
    ELSE LET shorter == SeqsUpTo(S, k - 1)
         IN shorter \cup {Append(t, b) : t \in {u \in shorter : Len(u) = k - 1}, b \in S}

Chunks == SeqsUpTo(Bytes, MaxChunk) \ {<<>>}

\* the reads whose text, if any, ends with a newline
AlignedChunks ==
    {data \in Chunks :
        LET text == utf8_decode(FALSE, data, FALSE).text
        IN Len(text) = 0 \/ Last(text) = "n"}

\* reads made of whole lines and an unfinished last line
RECURSIVE Flatten(_)
Flatten(ls) == IF Len(ls) = 0 THEN <<>> ELSE Head(ls) \o <<"n">> \o Flatten(Tail(ls))

LineBodies == SeqsUpTo(TextLetters, MaxTextPartial)
TextChunks ==
    ({Flatten(ls) : ls \in SeqsUpTo(LineBodies, MaxTextLines)}
      \cup {Flatten(ls) \o tail : ls \in SeqsUpTo(LineBodies, MaxTextLines - 1),
                                  tail \in LineBodies})
        \ {<<>>}

\* the unfinished line the delivery would leave the session with
PartialAfter(sid, data) ==
    LET text == utf8_decode(Get(utf8_decoders, sid, FALSE), data, FALSE).text
    IN Last(split_lines(Get(scan_partials, sid, <<>>) \o strip_ansi(text)))

\* ------------------------------------------------------------ TAMEScreen
\* A screen of one row. A buffer is an object: screen.heap gives, for the
\* identity of each live buffer, its cells (column -> character; a column
\* never written is absent, as in pyte's defaultdict). screen.buffer and
\* screen.saved_buffer hold identities. The cursor is its column.
\* screen.call is the last call made on the screen, and screen.at_enter the
\* main buffer (identity and cells) as it was when alt was last entered,
\* with whether a character was drawn since. A field that may be None is
\* Unset or Set(value).
Unset == <<>>
Set(v) == <<v>>
Value(field) == field[1]
Chars == {"X", "Y"}
AltModes == {47, 1047, 1049}
Modes == AltModes \cup {1048}
Columns == 0..(ScreenColumns - 1)

\* the identity of a new object: one that no live object has
new_object(heap) ==
    CHOOSE n \in 1..(Cardinality(DOMAIN heap) + 1) : n \notin DOMAIN heap

\* TAMEScreen(columns, lines): the main buffer, empty, and the cursor at home
new_screen ==
    [buffer |-> 1,
     heap |-> (1 :> Empty),
     alt_active |-> FALSE,
     saved_buffer |-> Unset,
     saved_cursor |-> Unset,
     cursor |-> [x |-> 0],
     columns |-> ScreenColumns,
     call |-> [name |-> None, modes |-> <<>>, private |-> FALSE],
     at_enter |-> Unset]

save_cursor(s) == [s EXCEPT !.saved_cursor = Set(s.cursor)]

restore_cursor(s) ==
    IF s.saved_cursor # Unset
    THEN [s EXCEPT !.cursor = Value(s.saved_cursor), !.saved_cursor = Unset]
    ELSE s

\* the main buffer is copied on enter: the saved buffer is another object
enter_alt_screen_copying(s, do_save_cursor) ==
    IF s.alt_active THEN s
    ELSE LET s1 == IF do_save_cursor THEN save_cursor(s) ELSE s
             copy == new_object(s1.heap)
             heap1 == (copy :> s1.heap[s1.buffer]) @@ s1.heap
             alt == new_object(heap1)
         IN [s1 EXCEPT !.alt_active = TRUE,
                       !.saved_buffer = Set(copy),
                       !.buffer = alt,
                       !.heap = (alt :> Empty) @@ heap1,
                       !.cursor = [x |-> 0]]

\* enter without the test of _alt_active
enter_alt_screen_again(s, do_save_cursor) ==
    LET s1 == IF do_save_cursor THEN save_cursor(s) ELSE s
        alt == new_object(s1.heap)
    IN [s1 EXCEPT !.alt_active = TRUE,
                  !.saved_buffer = Set(s1.buffer),
                  !.buffer = alt,
                  !.heap = (alt :> Empty) @@ s1.heap,
                  !.cursor = [x |-> 0]]

enter_alt_screen(s, do_save_cursor) ==
    IF s.alt_active THEN s
    ELSE LET s1 == IF do_save_cursor THEN save_cursor(s) ELSE s
             alt == new_object(s1.heap)
         IN [s1 EXCEPT !.alt_active = TRUE,
                       !.saved_buffer = Set(s1.buffer),
                       !.buffer = alt,
                       !.heap = (alt :> Empty) @@ s1.heap,
                       !.cursor = [x |-> 0]]

\* the objects a screen still refers to; the others are garbage
live(s) == {s.buffer} \cup {s.saved_buffer[i] : i \in DOMAIN s.saved_buffer}

\* the exit keeps the saved buffer in its field
exit_alt_screen_keeping_saved(s, do_restore_cursor) ==
    IF ~s.alt_active THEN s
    ELSE LET s1 == [s EXCEPT !.alt_active = FALSE,
                             !.buffer = Value(s.saved_buffer)]
             s2 == IF do_restore_cursor THEN restore_cursor(s1) ELSE s1
         IN [s2 EXCEPT !.heap = [b \in live(s2) |-> s2.heap[b]]]

exit_alt_screen(s, do_restore_cursor) ==
    IF ~s.alt_active THEN s
    ELSE LET s1 == [s EXCEPT !.alt_active = FALSE,
                             !.buffer = Value(s.saved_buffer),
                             !.saved_buffer = Unset]
             s2 == IF do_restore_cursor THEN restore_cursor(s1) ELSE s1
         IN [s2 EXCEPT !.heap = [b \in live(s2) |-> s2.heap[b]]]

\* TAMEScreen.set_mode: the modes in order; a mode that is not private, or
\* not one of the four, goes to pyte
RECURSIVE set_each(_, _)
set_each(s, modes) ==
    IF Len(modes) = 0 THEN s
    ELSE LET mode == Head(modes)
             s1 == CASE mode \in {47, 1047} -> enter_alt_screen(s, FALSE)
                     [] mode = 1048 -> save_cursor(s)
                     [] mode = 1049 -> enter_alt_screen(s, TRUE)
                     [] OTHER -> s
         IN set_each(s1, Tail(modes))

set_mode(s, modes, private) == IF private THEN set_each(s, modes) ELSE s

RECURSIVE reset_each(_, _)
reset_each(s, modes) ==
    IF Len(modes) = 0 THEN s
    ELSE LET mode == Head(modes)
             s1 == CASE mode \in {47, 1047} -> exit_alt_screen(s, FALSE)
                     [] mode = 1048 -> restore_cursor(s)
                     [] mode = 1049 -> exit_alt_screen(s, TRUE)
                     [] OTHER -> s
         IN reset_each(s1, Tail(modes))

reset_mode(s, modes, private) == IF private THEN reset_each(s, modes) ELSE s

\* a character written through the stream: it goes to the cursor's cell of
\* the current buffer and the cursor moves right, up to the last column
draw(s, char) ==
    [s EXCEPT !.heap[s.buffer] = Put(@, s.cursor.x, char),
              !.cursor.x = IF s.cursor.x + 1 < s.columns THEN s.cursor.x + 1 ELSE @]

\* the cursor moved through the stream, kept within the columns
cursor_position(s, x) ==
    [s EXCEPT !.cursor.x = IF x < s.columns THEN x ELSE s.columns - 1]

\* the cells of a line left of the column
clipped(cells, columns) == [x \in {c \in DOMAIN cells : c < columns} |-> cells[x]]

\* pyte's Screen.resize(columns=columns): the lines of the buffer shown are
\* clipped when the screen narrows
Screen_resize(s, columns) ==
    IF columns = s.columns THEN s
    ELSE [s EXCEPT !.heap[s.buffer] = IF columns < s.columns
                                      THEN clipped(@, columns) ELSE @,
                   !.columns = columns]

\* TAMEScreen.resize: the lines of the saved main buffer are clipped too
resize(s, columns) ==
    LET old_columns == s.columns
        s1 == Screen_resize(s, columns)
    IN IF s1.alt_active /\ s1.saved_buffer # Unset /\ s1.columns < old_columns
       THEN [s1 EXCEPT !.heap[Value(s1.saved_buffer)] = clipped(@, s1.columns)]
       ELSE s1

\* ------------------------------------------- SessionViewer and TAMEApp
\* Two sessions and their output. The text of a session is counted in
\* chunks: output_buffer gives how many chunks the session's OutputBuffer
\* holds, and a terminal (a _TerminalState, an object of viewer.heap) how
\* many were fed to it.  output_pending holds, for a session, the chunks
\* that wait for the next flush, in the order of their arrival, each chunk
\* by its length in characters.  output_flush_timer tells whether the field
\* holds a Timer, live_timers how many output_flush timers that were set
\* have neither fired nor been stopped.
\* app.call is the last call, with the session it was for, whether the
\* session's terminal was cached then, and the output the call flushed.
ViewerSessions == {"S1", "S2"}

\* the lengths of the chunks: a keystroke's echo, the longest chunk that is
\* flushed at once when nothing else is pending, and the shortest that is
\* not
SmallOutput == 64
ChunkSizes == {1, SmallOutput, SmallOutput + 1}
NoChunk == [size |-> 0, redraw |-> FALSE]

\* SessionViewer.__init__
new_viewer ==
    [terminals |-> Empty,
     heap |-> Empty,
     active_terminal |-> Unset,
     scroll_offset |-> 0,
     auto_scroll |-> TRUE]

\* TAMEApp.__init__, with two sessions registered
new_app ==
    [sessions |-> <<"S1", "S2">>,
     active_session_id |-> None,
     output_pending |-> Empty,
     output_flush_timer |-> FALSE,
     live_timers |-> 0,
     app_focused |-> TRUE,
     output_buffer |-> [sid \in ViewerSessions |-> 0],
     viewer |-> new_viewer,
     input_line_buffer |-> Empty,
     input_history |-> [sid \in ViewerSessions |-> <<>>],
     issued |-> ViewerSessions,
     notification_history |-> {},
     call |-> [name |-> None, sid |-> None, cached |-> FALSE, flushed |-> Empty,
               key |-> None, sent |-> <<>>, chunk |-> NoChunk]]

\* _TerminalState(session_id, rows, cols) fed with the buffer's text
new_terminal(sid, full_text) == [session_id |-> sid, fed |-> full_text]

\* the terminals a viewer still refers to; the others are garbage
referred(v) ==
    {v.terminals[sid] : sid \in DOMAIN v.terminals}
        \cup {v.active_terminal[i] : i \in DOMAIN v.active_terminal}

collected(v) == [v EXCEPT !.heap = [t \in referred(v) |-> v.heap[t]]]

\* every activation builds the terminal anew
load_session_rebuilding(v, sid, output_buffer) ==
    LET terminal == new_object(v.heap)
    IN collected([v EXCEPT !.scroll_offset = 0,
                           !.auto_scroll = TRUE,
                           !.heap = (terminal :> new_terminal(sid, output_buffer)) @@ @,
                           !.terminals = Put(@, sid, terminal),
                           !.active_terminal = Set(terminal)])

\* SessionViewer.load_session (pyte available)
load_session(v, sid, output_buffer) ==
    LET v1 == [v EXCEPT !.scroll_offset = 0, !.auto_scroll = TRUE]
    IN IF sid \in DOMAIN v1.terminals
       THEN collected([v1 EXCEPT !.active_terminal = Set(v1.terminals[sid])])
       ELSE LET terminal == new_object(v1.heap)
            IN collected(
                 [v1 EXCEPT !.heap = (terminal :> new_terminal(sid, output_buffer)) @@ @,
                            !.terminals = Put(@, sid, terminal),
                            !.active_terminal = Set(terminal)])

\* SessionViewer.append_output with text that is not empty; without an
\* active terminal the text goes to the fallback text
append_output(v, text) ==
    IF v.active_terminal = Unset THEN v
    ELSE [v EXCEPT !.heap[Value(v.active_terminal)].fed = @ + text,
                   !.scroll_offset = IF v.auto_scroll THEN 0 ELSE @]

\* SessionViewer.invalidate_session: never the active terminal
invalidate_session(v, sid) ==
    IF sid \in DOMAIN v.terminals
    THEN (IF v.active_terminal = Set(v.terminals[sid])
          THEN v
          ELSE collected([v EXCEPT !.terminals = Pop(@, sid)]))
    ELSE v

\* the lines of history of the active terminal: one for each chunk fed
history_len(v) ==
    IF v.active_terminal = Unset THEN 0 ELSE v.heap[Value(v.active_terminal)].fed

on_mouse_scroll_up(v) ==
    IF history_len(v) > 0
    THEN [v EXCEPT !.scroll_offset =
                      IF @ + 3 < history_len(v) THEN @ + 3 ELSE history_len(v),
                   !.auto_scroll = FALSE]
    ELSE v

on_mouse_scroll_down(v) ==
    LET offset == IF v.scroll_offset - 3 > 0 THEN v.scroll_offset - 3 ELSE 0
    IN [v EXCEPT !.scroll_offset = offset,
                 !.auto_scroll = IF offset = 0 THEN TRUE ELSE @]

\* the total of sum(len(c) for chunks in pending.values() for c in chunks)
RECURSIVE sum_len(_)
sum_len(chunks) == IF Len(chunks) = 0 THEN 0 ELSE Head(chunks) + sum_len(Tail(chunks))

RECURSIVE total_pending(_, _)
total_pending(pending, todo) ==
    IF todo = {} THEN 0
    ELSE LET sid == CHOOSE x \in todo : TRUE
         IN sum_len(pending[sid]) + total_pending(pending, todo \ {sid})

\* TAMEApp._flush_pending_output (no tmux snapshot rendering): the active
\* session's text goes to the viewer, a background session's cached
\* terminal is invalidated
RECURSIVE flush_each(_, _, _)
flush_each(a, pending, todo) ==
    IF todo = {} THEN a
    ELSE LET sid == CHOOSE x \in todo : TRUE
             a1 == IF sid = a.active_session_id
                   THEN [a EXCEPT !.viewer = append_output(@, Len(pending[sid]))]
                   ELSE [a EXCEPT !.viewer = invalidate_session(@, sid)]
         IN flush_each(a1, pending, todo \ {sid})

flush_pending_output(a) ==
    LET a1 == [a EXCEPT !.output_flush_timer = FALSE]
        pending == a1.output_pending
    IN IF DOMAIN pending = {} THEN a1
       ELSE flush_each([a1 EXCEPT !.output_pending = Empty], pending, DOMAIN pending)

\* self.set_timer(0.016, self._flush_pending_output, name="output_flush")
set_flush_timer(a) ==
    [a EXCEPT !.output_flush_timer = TRUE, !.live_timers = @ + 1]

\* if self._output_flush_timer is not None: stop it and forget it
stop_flush_timer(a) ==
    IF a.output_flush_timer
    THEN [a EXCEPT !.output_flush_timer = FALSE, !.live_timers = @ - 1]
    ELSE a

\* the batch is flushed at once below the limit only
handle_pty_output_below_limit(a, sid, redraw, size) ==
    LET a1 == [a EXCEPT !.output_pending = Put(@, sid, Append(Get(@, sid, <<>>), size))]
        total == total_pending(a1.output_pending, DOMAIN a1.output_pending)
    IN IF ~a1.app_focused THEN a1
       ELSE IF sid = a1.active_session_id /\ redraw
       THEN flush_pending_output(stop_flush_timer(a1))
       ELSE IF total < SmallOutput THEN flush_pending_output(stop_flush_timer(a1))
       ELSE IF ~a1.output_flush_timer THEN set_flush_timer(a1)
       ELSE a1

\* TAMEApp._handle_pty_output, called with a chunk the session's OutputBuffer
\* already holds; redraw: the chunk is a redraw control chunk; size: the
\* length of the chunk
handle_pty_output(a, sid, redraw, size) ==
    LET a1 == [a EXCEPT !.output_pending = Put(@, sid, Append(Get(@, sid, <<>>), size))]
        total == total_pending(a1.output_pending, DOMAIN a1.output_pending)
    IN IF ~a1.app_focused THEN a1
       ELSE IF sid = a1.active_session_id /\ redraw
       THEN flush_pending_output(stop_flush_timer(a1))
       ELSE IF total <= SmallOutput THEN flush_pending_output(stop_flush_timer(a1))
       ELSE IF ~a1.output_flush_timer THEN set_flush_timer(a1)
       ELSE a1

\* SessionViewer.show_snapshot
show_snapshot(v) ==
    collected([v EXCEPT !.scroll_offset = 0,
                        !.auto_scroll = TRUE,
                        !.active_terminal = Unset])

\* SessionViewer.remove_session
remove_session(v, sid) ==
    IF sid \in DOMAIN v.terminals
    THEN collected([v EXCEPT !.terminals = Pop(@, sid),
                             !.active_terminal =
                                 IF @ = Set(v.terminals[sid]) THEN Unset ELSE @])
    ELSE v

\* the sessions the manager lists
listed(a) == {a.sessions[i] : i \in DOMAIN a.sessions}

\* TAMEApp._select_session (no tmux snapshot rendering): the id is made the
\* active one, and the rest is skipped when get_session raises KeyError
select_session(a, sid) ==
    IF sid \in listed(a)
    THEN [a EXCEPT !.active_session_id = sid,
                   !.viewer = load_session(@, sid, a.output_buffer[sid])]
    ELSE [a EXCEPT !.active_session_id = sid]

\* TAMEApp._create_session: the manager registers a session under an id
\* never given out before (a uuid), and the app selects it
create_session_selected(a, sid) ==
    select_session([a EXCEPT !.sessions = Append(@, sid),
                             !.issued = @ \cup {sid}], sid)

\* TAMEApp._handle_status_change for a display state that has an event
\* type: the engine records an event of the session in its history
record_notification(a, sid) ==
    [a EXCEPT !.notification_history = @ \cup {sid}]

\* TAMEApp._handle_notification_panel_result and _handle_search_result
handle_notification_panel_result(a, session_id) ==
    IF session_id # None THEN select_session(a, session_id) ELSE a

handle_search_result(a, session_id) ==
    IF session_id # None THEN select_session(a, session_id) ELSE a

\* ------------------------------------------------- TAMEApp: keys typed
\* A key is a letter, the space, or a named key. What goes to the PTY is
\* the character, or "CR", "DEL", "ETX", "TAB" for the carriage return, the
\* delete character, the end-of-text character and the tab. app.call.sent
\* is the sequence of these that the handler passed to
\* SessionManager.send_input (empty: nothing sent). A session's
\* input_history is kept with the app's fields.
Printable == {"a", " "}
Keys == Printable \cup {"enter", "backspace", "ctrl+c", "tab"}

\* the keys of BINDINGS that go to the PTY, and their actions
BINDINGS == ("ctrl+c" :> "send_sigint") @@ ("tab" :> "send_tab")

\* TAMEApp._reserved_keys: every key that has a binding
reserved_keys == DOMAIN BINDINGS

should_forward_key(a, key) ==
    IF a.active_session_id = None THEN FALSE
    ELSE IF key \in reserved_keys THEN FALSE
    ELSE TRUE

key_to_pty_input(key) ==
    CASE key = "enter" -> "CR"
      [] key = "tab" -> "TAB"
      [] key = "backspace" -> "DEL"
      [] key = "ctrl+c" -> "ETX"
      [] OTHER -> key

\* str.strip
RECURSIVE strip(_)
strip(line) ==
    IF Len(line) = 0 THEN line
    ELSE IF Head(line) = " " THEN strip(Tail(line))
    ELSE IF Last(line) = " " THEN strip(Front(line))
    ELSE line

\* SessionManager.send_input as the app calls it
sends(a, data) == [a EXCEPT !.call.sent = data]

\* TAMEApp._record_input_history
record_input_history(a, session_id, line) ==
    IF session_id \notin listed(a) THEN a
    ELSE IF Len(a.input_history[session_id]) > 0
            /\ Last(a.input_history[session_id]) = line
    THEN a
    ELSE LET appended == Append(a.input_history[session_id], line)
         IN [a EXCEPT !.input_history[session_id] =
                IF Len(appended) > InputHistoryCap
                THEN SubSeq(appended, Len(appended) - InputHistoryCap + 1, Len(appended))
                ELSE appended]

\* TAMEApp.on_key for a key that does not open the command palette: the
\* tracking of the line typed, then the send
on_key_forwarding(a, key) ==
    IF ~should_forward_key(a, key) THEN a
    ELSE LET pty_input == key_to_pty_input(key)
             sid == a.active_session_id
             buf == Get(a.input_line_buffer, sid, <<>>)
             tracked ==
                 IF pty_input = "CR"
                 THEN LET a1 == [a EXCEPT !.input_line_buffer = Pop(@, sid)]
                      IN IF Len(buf) > 0 /\ Len(strip(buf)) > 0
                         THEN record_input_history(a1, sid, strip(buf))
                         ELSE a1
                 ELSE IF pty_input = "DEL"
                 THEN (IF Len(buf) > 0
                       THEN [a EXCEPT !.input_line_buffer[sid] = Front(buf)]
                       ELSE a)
                 ELSE IF pty_input = "ETX"
                 THEN [a EXCEPT !.input_line_buffer = Pop(@, sid)]
                 ELSE IF pty_input \in Printable
                 THEN [a EXCEPT !.input_line_buffer = Put(@, sid, Append(buf, pty_input))]
                 ELSE a
         IN sends(tracked, <<pty_input>>)

\* TAMEApp.action_send_sigint and action_send_tab (no dialog open)
send_sigint(a) == IF a.active_session_id = None THEN a ELSE sends(a, <<"ETX">>)

send_tab(a) == IF a.active_session_id = None THEN a ELSE sends(a, <<"TAB">>)

\* a key press: the action bound to the key, if any, and on_key
press(a, key) ==
    LET bound == IF key \notin DOMAIN BINDINGS THEN a
                 ELSE IF BINDINGS[key] = "send_sigint" THEN send_sigint(a)
                 ELSE send_tab(a)
    IN on_key_forwarding(bound, key)

\* TAMEApp._handle_history_pick
history_pick(a, command) ==
    IF a.active_session_id = None THEN a
    ELSE record_input_history(sends(a, command \o <<"CR">>),
                              a.active_session_id, command)

\* TAMEApp._confirm_kill_session, confirmed: the active session is deleted
\* and the next session, or else the previous one, becomes active
confirm_kill_session(a) ==
    IF a.active_session_id = None THEN a
    ELSE LET session_id == a.active_session_id
             ids == a.sessions
             idx == CHOOSE i \in DOMAIN ids : ids[i] = session_id
             next_session_id ==
                 IF Len(ids) > 1
                 THEN (IF idx + 1 <= Len(ids) THEN ids[idx + 1] ELSE ids[idx - 1])
                 ELSE None
             a1 == [a EXCEPT !.sessions = SelectSeq(ids, LAMBDA x : x # session_id),
                             !.viewer = remove_session(@, session_id)]
         IN IF next_session_id # None
            THEN select_session(a1, next_session_id)
            ELSE [a1 EXCEPT !.active_session_id = None]

\* the blur leaves the flush timer running
on_app_blur_keeping_timer(a) == [a EXCEPT !.app_focused = FALSE]

\* TAMEApp.on_app_blur
on_app_blur(a) == stop_flush_timer([a EXCEPT !.app_focused = FALSE])

on_app_focus(a) == flush_pending_output([a EXCEPT !.app_focused = TRUE])

\* ---------------------------------------------------------- OutputBuffer
\* Text is a sequence of letters and newlines ("n"). buffer.appended is the
\* concatenation of every text appended since the buffer was built or
\* cleared.
BufferLetters == {"a", "b", "n"}

\* OutputBuffer.__init__
new_OutputBuffer(maxlen) ==
    [lines |-> <<>>,
     partial |-> <<>>,
     total_lines_received |-> 0,
     total_bytes_received |-> 0,
     maxlen |-> maxlen,
     appended |-> <<>>]

\* a deque that keeps its oldest lines and discards the new one when full
deque_append_keeping_oldest(lines, line, maxlen) ==
    IF Len(lines) < maxlen THEN Append(lines, line) ELSE lines

\* deque(maxlen=maxlen).append
deque_append(lines, line, maxlen) ==
    IF maxlen = 0 THEN <<>>
    ELSE IF Len(lines) < maxlen THEN Append(lines, line)
    ELSE Append(Tail(lines), line)

RECURSIVE append_each(_, _)
append_each(b, complete_lines) ==
    IF Len(complete_lines) = 0 THEN b
    ELSE append_each(
           [b EXCEPT !.lines = deque_append(@, Head(complete_lines), b.maxlen),
                     !.total_lines_received = @ + 1],
           Tail(complete_lines))

\* OutputBuffer.append_data
OutputBuffer_append_data(b, text) ==
    LET parts == split_lines(b.partial \o text)
        b1 == append_each([b EXCEPT !.total_bytes_received = @ + Len(text)],
                          Front(parts))
    IN [b1 EXCEPT !.partial = Last(parts), !.appended = @ \o text]

\* OutputBuffer.get_lines
OutputBuffer_get_lines(b) == b.lines

\* "\n".join(pieces)
RECURSIVE join_lines(_)
join_lines(pieces) ==
    IF Len(pieces) = 0 THEN <<>>
    ELSE IF Len(pieces) = 1 THEN pieces[1]
    ELSE pieces[1] \o <<"n">> \o join_lines(Tail(pieces))

\* OutputBuffer.get_all_text
OutputBuffer_get_all_text(b) ==
    LET pieces == b.lines
    IN IF Len(pieces) > 0 \/ Len(b.partial) > 0
       THEN (IF Len(pieces) > 0 /\ Len(b.partial) > 0
             THEN join_lines(pieces) \o <<"n">> \o b.partial
             ELSE IF Len(b.partial) > 0 THEN b.partial
             ELSE join_lines(pieces))
       ELSE <<>>

\* OutputBuffer.clear
OutputBuffer_clear(b) == new_OutputBuffer(b.maxlen)

\* ---------------------------------------------------- NotificationEngine
\* Time is counted in ticks of 30 seconds. A fire time of _last_fired is
\* kept relative to the present, as an instant at or before the origin,
\* no further back than the longest cooldown. The time of day is one of three instants. engine.call is the
\* last dispatch: its event, whether do-not-disturb was active, the sinks
\* it invoked, in order, and whether an error left dispatch.
\* engine.since_dispatch and engine.since_invoked give, for each session and
\* event type with a cooldown, the ticks since the last dispatch made with
\* do-not-disturb inactive and since the last dispatch that invoked a sink.
EventType == {"input_needed", "error", "completed", "session_idle"}
EngineSessions == {"s1", "s2"}
Sinks == <<"desktop", "audio", "toast", "sidebar_flash">>
DayTimes == 0..2

\* 60 s and 120 s
DEFAULT_COOLDOWN == ("error" :> 2) @@ ("session_idle" :> 4)

DEFAULT_ROUTING ==
    [t \in EventType |->
        CASE t = "input_needed" -> {"desktop", "audio", "toast", "sidebar_flash"}
          [] t = "error" -> {"desktop", "audio", "toast", "sidebar_flash"}
          [] t = "completed" -> {"desktop", "audio", "toast"}
          [] t = "session_idle" -> {"toast"}]

\* dnd.start and dnd.end of the configuration: both absent, a window within
\* the day, a window over midnight
NoWindow == [start |-> Unset, end |-> Unset]
DndWindows ==
    {NoWindow,
     [start |-> Set(0), end |-> Set(1)],
     [start |-> Set(2), end |-> Set(0)]}

NoCall ==
    [serial |-> 0, event_type |-> None, session_id |-> None, dnd |-> FALSE,
     invoked |-> <<>>, raised |-> FALSE]

\* NotificationEngine.__init__, with the app's toast and sidebar callbacks
new_engine(max_size, dnd) ==
    [history |-> <<>>,
     max_size |-> max_size,
     dnd_enabled |-> FALSE,
     dnd_start |-> dnd.start,
     dnd_end |-> dnd.end,
     last_fired |-> Empty,
     dispatched |-> 0,
     since_dispatch |-> Empty,
     since_invoked |-> Empty,
     call |-> NoCall]

\* NotificationEngine._is_dnd
is_dnd(e, now_time) ==
    IF ~e.dnd_enabled THEN FALSE
    ELSE IF e.dnd_start = Unset \/ e.dnd_end = Unset THEN e.dnd_enabled
    ELSE IF Value(e.dnd_start) <= Value(e.dnd_end)
         THEN Value(e.dnd_start) <= now_time /\ now_time <= Value(e.dnd_end)
    ELSE now_time >= Value(e.dnd_start) \/ now_time <= Value(e.dnd_end)

\* NotificationHistory.add
history_add(e, event) ==
    [e EXCEPT !.history = deque_append(@, event, e.max_size)]

\* the sink calls of dispatch, in order; an error of a sink leaves dispatch
RECURSIVE invoke_each(_, _, _, _)
invoke_each(e, routes, failing, i) ==
    IF i > Len(Sinks) THEN e
    ELSE IF Sinks[i] \notin routes THEN invoke_each(e, routes, failing, i + 1)
    ELSE IF Sinks[i] = failing
         THEN [e EXCEPT !.call.invoked = Append(@, Sinks[i]), !.call.raised = TRUE]
    ELSE invoke_each([e EXCEPT !.call.invoked = Append(@, Sinks[i])],
                     routes, failing, i + 1)

cooldown_of(event_type) == Get(DEFAULT_COOLDOWN, event_type, 0)

\* the call of dispatch, as it is seen: the number of the dispatch, its
\* event, and whether do-not-disturb is active
calling(e, event_type, session_id, now_time) ==
    [e EXCEPT !.call = [NoCall EXCEPT !.serial = e.dispatched + 1,
                                      !.event_type = event_type,
                                      !.session_id = session_id,
                                      !.dnd = is_dnd(e, now_time)],
              !.dispatched = @ + 1]

\* dispatch that records nothing while do-not-disturb is active
dispatch_unrecorded_in_dnd(e, event_type, session_id, now_time, failing) ==
    LET e0 == calling(e, event_type, session_id, now_time)
        key == <<session_id, event_type>>
    IN IF is_dnd(e0, now_time) THEN e0
       ELSE LET e1 == history_add(e0, [serial |-> e.dispatched + 1,
                                       event_type |-> event_type,
                                       session_id |-> session_id])
            IN IF cooldown_of(event_type) > 0
                    /\ key \in DOMAIN e1.last_fired
                    /\ now - e1.last_fired[key] < cooldown_of(event_type)
               THEN e1
               ELSE invoke_each(
                      IF cooldown_of(event_type) > 0
                      THEN [e1 EXCEPT !.last_fired = Put(@, key, now)] ELSE e1,
                      DEFAULT_ROUTING[event_type], failing, 1)

\* dispatch that invokes the sinks whether do-not-disturb is active or not
dispatch_through_dnd(e, event_type, session_id, now_time, failing) ==
    LET e0 == calling(e, event_type, session_id, now_time)
        e1 == history_add(e0, [serial |-> e.dispatched + 1,
                               event_type |-> event_type,
                               session_id |-> session_id])
        key == <<session_id, event_type>>
    IN IF cooldown_of(event_type) > 0
            /\ key \in DOMAIN e1.last_fired
            /\ now - e1.last_fired[key] < cooldown_of(event_type)
       THEN e1
       ELSE invoke_each(
              IF cooldown_of(event_type) > 0
              THEN [e1 EXCEPT !.last_fired = Put(@, key, now)] ELSE e1,
              DEFAULT_ROUTING[event_type], failing, 1)

\* dispatch that records the time of a suppressed dispatch too
dispatch_restarting_cooldown(e, event_type, session_id, now_time, failing) ==
    LET e0 == calling(e, event_type, session_id, now_time)
        e1 == history_add(e0, [serial |-> e.dispatched + 1,
                               event_type |-> event_type,
                               session_id |-> session_id])
        key == <<session_id, event_type>>
    IN IF is_dnd(e1, now_time) THEN e1
       ELSE IF cooldown_of(event_type) > 0
                 /\ key \in DOMAIN e1.last_fired
                 /\ now - e1.last_fired[key] < cooldown_of(event_type)
       THEN [e1 EXCEPT !.last_fired = Put(@, key, now)]
       ELSE invoke_each(
              IF cooldown_of(event_type) > 0
              THEN [e1 EXCEPT !.last_fired = Put(@, key, now)] ELSE e1,
              DEFAULT_ROUTING[event_type], failing, 1)

\* NotificationEngine.dispatch at the time of day now_time; failing: the
\* sink that raises when it is invoked, if any. A key that is not in
\* _last_fired counts as fired at the epoch, long ago.
dispatch(e, event_type, session_id, now_time, failing) ==
    LET e0 == calling(e, event_type, session_id, now_time)
        e1 == history_add(e0, [serial |-> e.dispatched + 1,
                               event_type |-> event_type,
                               session_id |-> session_id])
        key == <<session_id, event_type>>
    IN IF is_dnd(e1, now_time) THEN e1
       ELSE IF cooldown_of(event_type) > 0
                 /\ key \in DOMAIN e1.last_fired
                 /\ now - e1.last_fired[key] < cooldown_of(event_type)
       THEN e1
       ELSE invoke_each(
              IF cooldown_of(event_type) > 0
              THEN [e1 EXCEPT !.last_fired = Put(@, key, now)] ELSE e1,
              DEFAULT_ROUTING[event_type], failing, 1)

\* NotificationEngine.set_dnd
set_dnd(e, enabled) == [e EXCEPT !.dnd_enabled = enabled]

\* the terminal side after construction
\* --------------------------------------------------------- PatternMatcher
\* A PatternMatcher built from any mapping of categories to patterns.  The
\* mapping is the sequence of its entries in insertion order.  A pattern is
\* one letter and matches the lines that hold the letter in either case; a
\* line is made of "a", "b" and the capital "A".  matcher.call is the last
\* scan: the line and what scan returned, a PatternMatch or nothing.
MatcherCategories ==
    {"error", "prompt", "completion", "progress", "weak_prompt", "custom"}
PatternLetters == {"a", "b"}
LineLetters == {"a", "b", "A"}

\* re.IGNORECASE
lower(ch) == IF ch = "A" THEN "a" ELSE ch

\* rx.search(line): the place of the leftmost match, 0 for no match
search(rx, line) ==
    LET hits == {i \in 1..Len(line) : lower(line[i]) = lower(rx)}
    IN IF hits = {} THEN 0
       ELSE CHOOSE i \in hits : \A j \in hits : i <= j

NoScan == [scanned |-> FALSE, line |-> <<>>, result |-> Unset]

\* PatternMatcher.__init__
new_PatternMatcher(patterns) == [compiled |-> patterns, call |-> NoScan]

\* self._compiled.get(category, [])
compiled_get(compiled, category) ==
    IF \E i \in 1..Len(compiled) : compiled[i].category = category
    THEN compiled[CHOOSE i \in 1..Len(compiled) :
                      compiled[i].category = category].patterns
    ELSE <<>>

PatternMatch(category, pattern_index, matched_text, line) ==
    [category |-> category, pattern_index |-> pattern_index,
     matched_text |-> matched_text, line |-> line]

\* the loop over the patterns of one category, from the idx-th on (the
\* first pattern has index 0)
RECURSIVE search_each(_, _, _, _)
search_each(category, patterns, idx, line) ==
    IF idx >= Len(patterns) THEN Unset
    ELSE LET m == search(patterns[idx + 1], line)
         IN IF m > 0
            THEN Set(PatternMatch(category, idx, line[m], line))
            ELSE search_each(category, patterns, idx + 1, line)

\* the loop over the categories of SCAN_ORDER, from the i-th on
RECURSIVE scan_in_order(_, _, _)
scan_in_order(compiled, i, line) ==
    IF i > Len(SCAN_ORDER) THEN Unset
    ELSE LET found == search_each(SCAN_ORDER[i],
                                  compiled_get(compiled, SCAN_ORDER[i]), 0, line)
         IN IF found # Unset THEN found
            ELSE scan_in_order(compiled, i + 1, line)

\* the loop over the items of the mapping, from the i-th on, every category
\* scanned
RECURSIVE scan_items(_, _, _)
scan_items(compiled, i, line) ==
    IF i > Len(compiled) THEN Unset
    ELSE LET found == search_each(compiled[i].category, compiled[i].patterns, 0, line)
         IN IF found # Unset THEN found
            ELSE scan_items(compiled, i + 1, line)

\* the loop over the items of the mapping, from the i-th on, the categories
\* of SCAN_ORDER skipped
RECURSIVE scan_extras(_, _, _)
scan_extras(compiled, i, line) ==
    IF i > Len(compiled) THEN Unset
    ELSE IF \E k \in 1..Len(SCAN_ORDER) : SCAN_ORDER[k] = compiled[i].category
    THEN scan_extras(compiled, i + 1, line)
    ELSE LET found == search_each(compiled[i].category, compiled[i].patterns, 0, line)
         IN IF found # Unset THEN found
            ELSE scan_extras(compiled, i + 1, line)

\* the categories are scanned in the order of the mapping
PatternMatcher_scan_in_mapping_order(pm, line) ==
    scan_items(pm.compiled, 1, line)

\* PatternMatcher.scan
PatternMatcher_scan(pm, line) ==
    LET found == scan_in_order(pm.compiled, 1, line)
    IN IF found # Unset THEN found
       ELSE scan_extras(pm.compiled, 1, line)

\* ------------------------------------------------ TAMEApp: tmux health
\* health.names are the sessions whose metadata holds a tmux session name,
\* health.alive the tmux sessions the server still has.  A run of
\* _check_tmux_health is the list it took from list_sessions, what is left
\* of it (todo), and whether an exception ended it (raised); probed are the
\* sessions has-session was run for, in order.
HealthSessions == <<"s1", "s2">>

new_health ==
    [names |-> {}, alive |-> {}, running |-> FALSE, todo |-> <<>>,
     probed |-> <<>>, gone |-> <<>>, raised |-> FALSE]

\* SessionManager has no attribute mark_session_exited: the call raises
\* AttributeError and the session is left as it is
mark_session_exited(m, sid) ==
    [m EXCEPT !.emitted = Append(@, Event("raise", sid, None, None, None))]

\* TAMEApp._tmux_session_alive
tmux_session_alive(h, sid) == sid \in h.alive

\* one turn of the loop of _check_tmux_health, for the session at the head
\* of the list: the new health record and the new manager
check_tmux_health_turn(h, m) ==
    LET sid == Head(h.todo)
        rest == [h EXCEPT !.todo = Tail(@), !.running = Len(Tail(h.todo)) > 0]
    IN IF sid \notin h.names THEN [h |-> rest, m |-> m]
       ELSE IF sid \in DOMAIN m.sessions
               /\ status(m.sessions[sid]) \in {"DONE", "ERROR"}
       THEN [h |-> rest, m |-> m]
       ELSE LET probed == [rest EXCEPT !.probed = Append(@, sid)]
            IN IF tmux_session_alive(h, sid) THEN [h |-> probed, m |-> m]
               ELSE LET m1 == mark_session_exited(m, sid)
                        raises == \E i \in 1..Len(m1.emitted) :
                                     m1.emitted[i].kind = "raise"
                    IN [h |-> IF raises
                              THEN [probed EXCEPT !.gone = Append(@, sid),
                                                  !.todo = <<>>,
                                                  !.running = FALSE,
                                                  !.raised = TRUE]
                              ELSE [probed EXCEPT !.gone = Append(@, sid)],
                        m |-> m1]

\* ----------------------------------------- TAMEApp: the resource poll
\* executor.task is the place of one resource poll: "none", "queued" (handed
\* to the executor by the reactor), "collected" (the executor thread has run
\* _collect_resource_data, its result waits for the reactor).  The threads
\* interleave between the statements of a registry operation of the
\* reactor: executor.reactor_in is the operation the reactor is in the
\* middle of ("create" after the session is registered, "delete" after its
\* timers and partials are dropped), with its session.  executor.call is the
\* last step of the executor thread: what it read and what the reactor was
\* in the middle of.
PollSessions == <<"s1", "s2">>

new_executor ==
    [task |-> "none", listed |-> <<>>, reactor_in |-> None, sid |-> None,
     call |-> [reads |-> None, during |-> None]]

\* SessionManager.list_sessions
list_sessions(m) == SelectSeq(PollSessions, LAMBDA sid : sid \in DOMAIN m.sessions)

\* TAMEApp._collect_resource_data, on the executor thread
collect_resource_data(e, m) ==
    [e EXCEPT !.task = "collected",
              !.listed = list_sessions(m),
              !.call = [reads |-> "registry", during |-> e.reactor_in]]

\* create_session up to the registration of the session
create_session_registered(m, sid) ==
    [m EXCEPT !.sessions = Put(@, sid, new_session)]

\* delete_session up to the removal from the registry
delete_session_cleanup(m, sid) ==
    LET m1 == [m EXCEPT !.scan_partials = Pop(@, sid),
                        !.last_scanned_partial = Pop(@, sid)]
        m2 == cancel_idle_timer(cancel_weak_prompt_timer(m1, sid), sid)
    IN [m2 EXCEPT !.debounce_until = Pop(@, sid),
                  !.utf8_decoders = Pop(@, sid)]

InitUi ==
    /\ executor = new_executor
    /\ health = new_health
    /\ screen = new_screen
    /\ app = new_app
    /\ buffer = new_OutputBuffer(BufferMaxlen)
    /\ engine = new_engine(HistoryMaxSize, NoWindow)
    /\ matcher = new_PatternMatcher(<<>>)

\* ---------------------------------------------------------------- actions
\* SessionManager.__init__
Constructed ==
    [sessions |-> Empty,
     scan_partials |-> Empty,
     last_scanned_partial |-> Empty,
     debounce_until |-> Empty,
     weak_prompt_timers |-> Empty,
     idle_timers |-> Empty,
     utf8_decoders |-> Empty,
     scheduled |-> {},
     emitted |-> <<>>]

Init ==
    /\ elapsed = Empty
    /\ sessions = Empty
    /\ scan_partials = Empty
    /\ last_scanned_partial = Empty
    /\ debounce_until = Empty
    /\ weak_prompt_timers = Empty
    /\ idle_timers = Empty
    /\ utf8_decoders = Empty
    /\ scheduled = {}
    /\ loop = FALSE
    /\ created = {}
    /\ emitted = <<>>
    /\ InitUi

CreateSession ==
    \E sid \in SessionIds \ created :
        /\ Commit(create_session(Cur, sid))
        /\ created' = created \cup {sid}
        /\ UNCHANGED loop

DeleteSession ==
    \E sid \in DOMAIN sessions :
        /\ Commit(delete_session(Cur, sid))
        /\ UNCHANGED <<loop, created>>

AttachToLoop ==
    /\ ~loop
    /\ loop' = TRUE
    /\ Commit(Cur)
    /\ UNCHANGED created

\* the reader callback with a non-empty read
OutputFrom(reads, longest) ==
    \E sid \in DOMAIN sessions, data \in reads :
        /\ ~sessions[sid].pty_process.eof
        /\ Len(PartialAfter(sid, data)) <= longest
        /\ Commit(on_readable(Cur, sid, data))
        /\ UNCHANGED <<loop, created>>

\* Spec: reads that end at a line boundary
Output == OutputFrom(AlignedChunks, 0)

OutputText == OutputFrom(TextChunks, MaxTextPartial)

\* the reader callback with an empty read: end of file, delivered once
Eof ==
    \E sid \in DOMAIN sessions :
        /\ ~sessions[sid].pty_process.eof
        /\ Commit(on_readable(Cur, sid, <<>>))
        /\ UNCHANGED <<loop, created>>

\* the child terminates on its own with an exit status
ChildExits ==
    \E sid \in DOMAIN sessions, code \in {0, 1} :
        /\ sessions[sid].pty_process.child = "running"
        /\ Commit([Cur EXCEPT !.sessions[sid].pty_process = terminate(@, code)])
        /\ UNCHANGED <<loop, created>>

PauseSession ==
    \E sid \in DOMAIN sessions :
        /\ Commit(pause_session(Cur, sid))
        /\ UNCHANGED <<loop, created>>

ResumeSession ==
    \E sid \in DOMAIN sessions :
        /\ Commit(resume_session(Cur, sid))
        /\ UNCHANGED <<loop, created>>

StopAll ==
    \E codes \in [DOMAIN sessions -> {0, 1}] :
        /\ Commit(stop_all(Cur, codes))
        /\ UNCHANGED <<loop, created>>

\* the input paths of the app: a typed key, Ctrl+C, Ctrl+D, Tab, a history pick
InputPaths == {"key", "sigint", "eof", "tab", "history"}

\* input on one of the paths; the write to a dead child's PTY may raise
SendInput ==
    \E sid \in DOMAIN sessions, written \in BOOLEAN, path \in InputPaths :
        /\ written \/ ~is_alive(sessions[sid].pty_process)
        /\ Commit(CASE path = "key" -> on_key(Cur, sid, written)
                    [] path = "sigint" -> action_send_sigint(Cur, sid, written)
                    [] path = "eof" -> action_send_eof(Cur, sid, written)
                    [] path = "tab" -> action_send_tab(Cur, sid, written)
                    [] path = "history" -> handle_history_pick(Cur, sid, written))
        /\ UNCHANGED <<loop, created>>

ScanPaneContent ==
    \E sid \in DOMAIN sessions, text \in LineBodies \ {<<>>} :
        /\ Commit(scan_pane_content(Cur, sid, text))
        /\ UNCHANGED <<loop, created>>

\* the loop runs a handle that is due: the handle leaves the loop and its
\* callback is called
Due(callback) == {h \in scheduled : h.callback = callback /\ h.at <= now}

FireWeakPrompt ==
    \E h \in Due("fire_weak_prompt") :
        /\ Commit(fire_weak_prompt(drop(Cur, h), h.sid))
        /\ UNCHANGED <<loop, created>>

FireIdleTimeout ==
    \E h \in Due("fire_idle_timeout") :
        /\ Commit(fire_idle_timeout(drop(Cur, h), h.sid))
        /\ UNCHANGED <<loop, created>>

\* one tick of time passes
Closer(d) == [k \in DOMAIN d |-> IF d[k] > 0 THEN d[k] - 1 ELSE 0]

Later(t) == IF t < state_debounce_seconds THEN t + 1 ELSE t

Ahead(d) == \E k \in DOMAIN d : d[k] > 0

Tick ==
    /\ \/ Ahead(debounce_until) \/ Ahead(weak_prompt_timers) \/ Ahead(idle_timers)
       \/ \E h \in scheduled : h.at > 0
       \/ \E sid \in DOMAIN elapsed : elapsed[sid].any < state_debounce_seconds
       \/ \E sid \in DOMAIN elapsed : elapsed[sid].quiet < idle_threshold
    /\ debounce_until' = Closer(debounce_until)
    /\ weak_prompt_timers' = Closer(weak_prompt_timers)
    /\ idle_timers' = Closer(idle_timers)
    /\ scheduled' = {Handle(h.callback, h.sid, IF h.at > 0 THEN h.at - 1 ELSE 0) :
                        h \in scheduled}
    /\ elapsed' = [sid \in DOMAIN elapsed |->
                      [any |-> Later(elapsed[sid].any),
                       display |-> Later(elapsed[sid].display),
                       quiet |-> IF elapsed[sid].quiet < idle_threshold
                                 THEN elapsed[sid].quiet + 1
                                 ELSE elapsed[sid].quiet,
                       weak_armed |-> elapsed[sid].weak_armed,
                       attention_then |-> elapsed[sid].attention_then]]
    /\ emitted' = <<>>
    /\ UNCHANGED <<sessions, scan_partials, last_scanned_partial, utf8_decoders,
                   loop, created>>
    /\ UNCHANGED ui_vars

Next ==
    \/ CreateSession
    \/ DeleteSession
    \/ AttachToLoop
    \/ Output
    \/ Eof
    \/ ChildExits
    \/ PauseSession
    \/ ResumeSession
    \/ StopAll
    \/ SendInput
    \/ ScanPaneContent
    \/ FireWeakPrompt
    \/ FireIdleTimeout
    \/ Tick

Spec == Init /\ [][Next]_vars

\* One session and what its output does to it: reads of several lines with
\* an unfinished tail, with or without an event loop.
InitText ==
    /\ loop \in BOOLEAN
    /\ \E m \in {create_session(Constructed, "s1")} :
        /\ sessions = m.sessions
        /\ scan_partials = m.scan_partials
        /\ last_scanned_partial = m.last_scanned_partial
        /\ debounce_until = m.debounce_until
        /\ weak_prompt_timers = m.weak_prompt_timers
        /\ idle_timers = m.idle_timers
        /\ utf8_decoders = m.utf8_decoders
        /\ scheduled = m.scheduled
        /\ emitted = m.emitted
        /\ elapsed = Observed(Empty, m.sessions, Empty, m.emitted)
    /\ created = {"s1"}
    /\ InitUi

NextText ==
    \/ OutputText
    \/ Eof
    \/ SendInput
    \/ FireWeakPrompt
    \/ FireIdleTimeout
    \/ Tick

SpecText == InitText /\ [][NextText]_vars

\* One session with no event loop, a pane capture scanned and a read
\* delivered: texts of whole lines and an unfinished last line, of error,
\* prompt, completion and progress lines.
SnapshotLetters == {"e", "p", "c", "g"}
SnapshotBodies == SeqsUpTo(SnapshotLetters, MaxTextPartial)
SnapshotTexts ==
    ({Flatten(ls) : ls \in SeqsUpTo(SnapshotBodies, MaxTextLines)}
      \cup {Flatten(ls) \o tail : ls \in SeqsUpTo(SnapshotBodies, MaxTextLines - 1),
                                  tail \in SnapshotBodies})
        \ {<<>>}

InitSnapshot ==
    /\ InitText
    /\ ~loop

ScanSnapshot ==
    \E sid \in DOMAIN sessions, text \in SnapshotTexts :
        /\ Commit(scan_pane_content(Cur, sid, text))
        /\ UNCHANGED <<loop, created>>

OutputSnapshot == OutputFrom(SnapshotTexts, MaxTextPartial)

NextSnapshot ==
    \/ ScanSnapshot
    \/ OutputSnapshot
    \/ Tick

SpecSnapshot == InitSnapshot /\ [][NextSnapshot]_vars

\* One session whose output matches no error pattern, its end of file and
\* the exit of its child, in any order.
CleanChunks == {data \in AlignedChunks : \A i \in 1..Len(data) : data[i] # "e"}

OutputClean == OutputFrom(CleanChunks, 0)

NextExit ==
    \/ OutputClean
    \/ Eof
    \/ ChildExits
    \/ SendInput
    \/ FireWeakPrompt
    \/ FireIdleTimeout
    \/ Tick

SpecExit == InitText /\ [][NextExit]_vars

\* A TAMEScreen fed by a stream: mode switches, characters, cursor moves.
Called(s, name, modes, private) ==
    [s EXCEPT !.call = [name |-> name, modes |-> modes, private |-> private],
              !.at_enter =
                  IF ~screen.alt_active /\ s.alt_active
                  THEN Set([buffer |-> screen.buffer,
                            cells |-> screen.heap[screen.buffer],
                            drawn |-> FALSE])
                  ELSE IF name = "draw" /\ screen.at_enter # Unset
                  THEN Set([Value(screen.at_enter) EXCEPT !.drawn = TRUE])
                  ELSE screen.at_enter]

ModeLists == SeqsUpTo(Modes, MaxModes) \ {<<>>}

SetMode ==
    \E modes \in ModeLists, private \in BOOLEAN :
        /\ screen' = Called(set_mode(screen, modes, private), "set_mode", modes, private)
        /\ UNCHANGED all_but_screen

ResetMode ==
    \E modes \in ModeLists, private \in BOOLEAN :
        /\ screen' = Called(reset_mode(screen, modes, private), "reset_mode", modes, private)
        /\ UNCHANGED all_but_screen

Draw ==
    \E char \in Chars :
        /\ screen' = Called(draw(screen, char), "draw", <<>>, FALSE)
        /\ UNCHANGED all_but_screen

CursorPosition ==
    \E x \in Columns :
        /\ screen' = Called(cursor_position(screen, x), "cursor_position", <<>>, FALSE)
        /\ UNCHANGED all_but_screen

NextScreen ==
    \/ SetMode
    \/ ResetMode
    \/ Draw
    \/ CursorPosition

SpecScreen == Init /\ [][NextScreen]_vars

\* The screen of a terminal of the viewer, which the viewer resizes
Resize ==
    \E columns \in 1..ScreenColumns :
        /\ screen' = Called(resize(screen, columns), "resize", <<>>, FALSE)
        /\ UNCHANGED all_but_screen

NextResize ==
    \/ SetMode
    \/ ResetMode
    \/ Draw
    \/ CursorPosition
    \/ Resize

SpecResize == Init /\ [][NextResize]_vars

\* The app with two sessions: output, flushes, switches of the active
\* session, focus and scrolling.
Flushes == {"handle_pty_output", "flush_pending_output", "on_app_focus"}

CalledWith(a, name, sid, chunk) ==
    LET pending == IF name = "handle_pty_output"
                   THEN Put(app.output_pending, sid,
                            Append(Get(app.output_pending, sid, <<>>), chunk.size))
                   ELSE app.output_pending
    IN [a EXCEPT !.call =
          [name |-> name, sid |-> sid,
           cached |-> sid \in DOMAIN app.viewer.terminals,
           flushed |-> IF name \in Flushes /\ DOMAIN a.output_pending = {}
                       THEN pending ELSE Empty,
           key |-> None, sent |-> <<>>, chunk |-> chunk]]

CalledApp(a, name, sid) == CalledWith(a, name, sid, NoChunk)

\* a chunk of output of a session: the manager appends it to the session's
\* OutputBuffer and hands it to the app
HandlePtyOutput ==
    \E sid \in listed(app), redraw \in BOOLEAN, size \in ChunkSizes :
        /\ app.output_buffer[sid] < MaxOutput
        /\ app' = CalledWith(
                     handle_pty_output([app EXCEPT !.output_buffer[sid] = @ + 1],
                                       sid, redraw, size),
                     "handle_pty_output", sid, [size |-> size, redraw |-> redraw])
        /\ UNCHANGED all_but_app

\* an output_flush timer fires: it is spent, and calls _flush_pending_output
FlushPendingOutput ==
    /\ app.live_timers > 0
    /\ app' = CalledApp(flush_pending_output([app EXCEPT !.live_timers = @ - 1]),
                        "flush_pending_output", None)
    /\ UNCHANGED all_but_app

SelectSession ==
    \E sid \in listed(app) :
        /\ app' = CalledApp(select_session(app, sid), "select_session", sid)
        /\ UNCHANGED all_but_app

AppBlur ==
    /\ app.app_focused
    /\ app' = CalledApp(on_app_blur(app), "on_app_blur", None)
    /\ UNCHANGED all_but_app

AppFocus ==
    /\ ~app.app_focused
    /\ app' = CalledApp(on_app_focus(app), "on_app_focus", None)
    /\ UNCHANGED all_but_app

MouseScrollUp ==
    /\ app' = CalledApp([app EXCEPT !.viewer = on_mouse_scroll_up(@)],
                        "on_mouse_scroll_up", None)
    /\ UNCHANGED all_but_app

MouseScrollDown ==
    /\ app' = CalledApp([app EXCEPT !.viewer = on_mouse_scroll_down(@)],
                        "on_mouse_scroll_down", None)
    /\ UNCHANGED all_but_app

NextViewer ==
    \/ HandlePtyOutput
    \/ FlushPendingOutput
    \/ SelectSession
    \/ AppBlur
    \/ AppFocus
    \/ MouseScrollUp
    \/ MouseScrollDown

SpecViewer == Init /\ [][NextViewer]_vars

\* The viewport of the viewer: output, switches of the active session,
\* scrolling, a snapshot shown in place of the terminal, and the deletion of
\* the active session.
ShowSnapshot ==
    /\ app.active_session_id # None
    /\ app' = CalledApp([app EXCEPT !.viewer = show_snapshot(@)],
                        "show_snapshot", None)
    /\ UNCHANGED all_but_app

KillSession ==
    /\ app.active_session_id \in listed(app)
    /\ app' = CalledApp(confirm_kill_session(app), "confirm_kill_session", None)
    /\ UNCHANGED all_but_app

NextViewport ==
    \/ HandlePtyOutput
    \/ FlushPendingOutput
    \/ SelectSession
    \/ MouseScrollUp
    \/ MouseScrollDown
    \/ ShowSnapshot
    \/ KillSession

SpecViewport == Init /\ [][NextViewport]_vars

\* The app and its registry of sessions: sessions created and killed, the
\* active session switched, and a session picked in the notification
\* history or among the results of a global search.  The sessions of
\* app.sessions are those the manager has registered; app.issued the ids
\* given out so far; app.notification_history the sessions that have an
\* event in the engine's history.
InitActive ==
    /\ elapsed = Empty
    /\ sessions = Empty
    /\ scan_partials = Empty
    /\ last_scanned_partial = Empty
    /\ debounce_until = Empty
    /\ weak_prompt_timers = Empty
    /\ idle_timers = Empty
    /\ utf8_decoders = Empty
    /\ scheduled = {}
    /\ loop = FALSE
    /\ created = {}
    /\ emitted = <<>>
    /\ executor = new_executor
    /\ health = new_health
    /\ screen = new_screen
    /\ app = [new_app EXCEPT !.sessions = <<>>, !.issued = {}]
    /\ buffer = new_OutputBuffer(BufferMaxlen)
    /\ engine = new_engine(HistoryMaxSize, NoWindow)
    /\ matcher = new_PatternMatcher(<<>>)

CreateSelected ==
    \E sid \in ViewerSessions \ app.issued :
        /\ app' = CalledApp(create_session_selected(app, sid), "create_session", sid)
        /\ UNCHANGED all_but_app

RecordNotification ==
    \E sid \in listed(app) :
        /\ sid \notin app.notification_history
        /\ app' = CalledApp(record_notification(app, sid), "handle_status_change", sid)
        /\ UNCHANGED all_but_app

\* the panel is dismissed with the session of one of the events of the
\* history it was opened with, or with None
NotificationPanelResult ==
    \E session_id \in app.notification_history \cup {None} :
        /\ app' = CalledApp(handle_notification_panel_result(app, session_id),
                            "handle_notification_panel_result", session_id)
        /\ UNCHANGED all_but_app

\* the dialog is dismissed with one of the sessions it was opened with,
\* which are still registered (the dialog is modal), or with None
SearchResult ==
    \E session_id \in listed(app) \cup {None} :
        /\ app' = CalledApp(handle_search_result(app, session_id),
                            "handle_search_result", session_id)
        /\ UNCHANGED all_but_app

NextActive ==
    \/ CreateSelected
    \/ KillSession
    \/ SelectSession
    \/ RecordNotification
    \/ NotificationPanelResult
    \/ SearchResult
    \/ MouseScrollUp
    \/ MouseScrollDown

SpecActive == InitActive /\ [][NextActive]_vars

\* The keys typed to the sessions: key presses, picks from the input
\* history, and switches of the active session.
KeyCall(name, key) ==
    [name |-> name, sid |-> app.active_session_id, cached |-> FALSE,
     flushed |-> Empty, key |-> key, sent |-> <<>>, chunk |-> NoChunk]

KeyPress ==
    \E key \in Keys :
        /\ key \in Printable
              => Len(Get(app.input_line_buffer, app.active_session_id, <<>>)) < MaxLine
        /\ app' = press([app EXCEPT !.call = KeyCall("press", key)], key)
        /\ UNCHANGED all_but_app

\* every entry of every session's history can be picked
HistoryPick ==
    \E sid \in ViewerSessions :
        \E i \in DOMAIN app.input_history[sid] :
            /\ app' = history_pick([app EXCEPT !.call = KeyCall("history_pick", None)],
                                   app.input_history[sid][i])
            /\ UNCHANGED all_but_app

NextKeys ==
    \/ KeyPress
    \/ HistoryPick
    \/ SelectSession

SpecKeys == Init /\ [][NextKeys]_vars

\* A PatternMatcher: its construction from a mapping and its scans.
PatternLists == SeqsUpTo(PatternLetters, MaxPatterns)

\* the mappings: entries of distinct categories, in any insertion order
RECURSIVE MappingsUpTo(_)
MappingsUpTo(k) ==
    IF k = 0 THEN {<<>>}
    ELSE LET shorter == MappingsUpTo(k - 1)
         IN shorter \cup
            {Append(d, [category |-> c, patterns |-> ps]) :
                d \in {u \in shorter : Len(u) = k - 1},
                c \in MatcherCategories, ps \in PatternLists}

PatternMappings ==
    {d \in MappingsUpTo(MaxCategories) :
        \A i, j \in 1..Len(d) : i # j => d[i].category # d[j].category}

ScanLines == SeqsUpTo(LineLetters, MaxScanLine)

\* the matcher is built once, from any mapping
Construct ==
    \E patterns \in PatternMappings :
        /\ matcher = new_PatternMatcher(<<>>)
        /\ matcher' = new_PatternMatcher(patterns)
        /\ UNCHANGED all_but_matcher

Scan ==
    \E line \in ScanLines :
        /\ matcher' = [matcher EXCEPT !.call =
                          [scanned |-> TRUE, line |-> line,
                           result |-> PatternMatcher_scan(matcher, line)]]
        /\ UNCHANGED all_but_matcher

NextMatcher ==
    \/ Construct
    \/ Scan

SpecMatcher == Init /\ [][NextMatcher]_vars

\* Two sessions attached to tmux sessions, the tmux server losing them, the
\* ends of the sessions and the periodic health check.
InitHealth ==
    /\ loop = TRUE
    /\ \E m \in {create_session(create_session(Constructed, "s1"), "s2")} :
        /\ sessions = m.sessions
        /\ scan_partials = m.scan_partials
        /\ last_scanned_partial = m.last_scanned_partial
        /\ debounce_until = m.debounce_until
        /\ weak_prompt_timers = m.weak_prompt_timers
        /\ idle_timers = m.idle_timers
        /\ utf8_decoders = m.utf8_decoders
        /\ scheduled = m.scheduled
        /\ emitted = m.emitted
        /\ elapsed = Observed(Empty, m.sessions, Empty, m.emitted)
    /\ created = {"s1", "s2"}
    /\ health \in {[new_health EXCEPT !.names = names, !.alive = names] :
                        names \in SUBSET {"s1", "s2"}}
    /\ screen = new_screen
    /\ app = new_app
    /\ buffer = new_OutputBuffer(BufferMaxlen)
    /\ engine = new_engine(HistoryMaxSize, NoWindow)
    /\ matcher = new_PatternMatcher(<<>>)
    /\ executor = new_executor

\* tmux kill-session, or the end of the tmux server
TmuxSessionGone ==
    \E sid \in health.alive :
        /\ health' = [health EXCEPT !.alive = @ \ {sid}]
        /\ UNCHANGED <<manager_vars, ui_but_health>>

\* the interval timer starts _check_tmux_health: the list is taken
CheckTmuxHealth ==
    /\ ~health.running
    /\ health' = [health EXCEPT
                    !.todo = SelectSeq(HealthSessions, LAMBDA sid : sid \in DOMAIN sessions),
                    !.running = TRUE, !.probed = <<>>, !.gone = <<>>,
                    !.raised = FALSE]
    /\ UNCHANGED <<manager_vars, ui_but_health>>

\* the coroutine goes on with the next session of its list
CheckTmuxHealthTurn ==
    /\ health.running
    /\ Len(health.todo) > 0
    /\ \E turn \in {check_tmux_health_turn(health, Cur)} :
        /\ health' = turn.h
        /\ CommitManager(turn.m)
    /\ UNCHANGED <<loop, created, ui_but_health>>

NextHealth ==
    \/ TmuxSessionGone
    \/ CheckTmuxHealth
    \/ CheckTmuxHealthTurn
    \/ Eof
    \/ ChildExits
    \/ FireIdleTimeout
    \/ Tick

SpecHealth == InitHealth /\ [][NextHealth]_vars

\* The reactor creating and deleting sessions, statement by statement, and
\* the resource poll with its task on the executor thread.
InitPoll ==
    /\ elapsed = Empty
    /\ sessions = Empty
    /\ scan_partials = Empty
    /\ last_scanned_partial = Empty
    /\ debounce_until = Empty
    /\ weak_prompt_timers = Empty
    /\ idle_timers = Empty
    /\ utf8_decoders = Empty
    /\ scheduled = {}
    /\ loop = TRUE
    /\ created = {}
    /\ emitted = <<>>
    /\ InitUi

CreateRegistered ==
    \E sid \in {"s1", "s2"} \ created :
        /\ executor.reactor_in = None
        /\ CommitManager(create_session_registered(Cur, sid))
        /\ created' = created \cup {sid}
        /\ executor' = [executor EXCEPT !.reactor_in = "create", !.sid = sid]
        /\ UNCHANGED <<loop, ui_but_executor>>

CreateFinished ==
    /\ executor.reactor_in = "create"
    /\ CommitManager(reset_idle_timer(Cur, executor.sid))
    /\ executor' = [executor EXCEPT !.reactor_in = None, !.sid = None]
    /\ UNCHANGED <<loop, created, ui_but_executor>>

DeleteCleanup ==
    \E sid \in DOMAIN sessions :
        /\ executor.reactor_in = None
        /\ CommitManager(delete_session_cleanup(Cur, sid))
        /\ executor' = [executor EXCEPT !.reactor_in = "delete", !.sid = sid]
        /\ UNCHANGED <<loop, created, ui_but_executor>>

DeleteFinished ==
    /\ executor.reactor_in = "delete"
    /\ CommitManager([Cur EXCEPT !.sessions = Pop(@, executor.sid)])
    /\ executor' = [executor EXCEPT !.reactor_in = None, !.sid = None]
    /\ UNCHANGED <<loop, created, ui_but_executor>>

\* the interval timer: _poll_resources_async hands the task to the executor
PollResources ==
    /\ executor.reactor_in = None
    /\ executor.task = "none"
    /\ executor' = [executor EXCEPT !.task = "queued"]
    /\ UNCHANGED <<manager_vars, ui_but_executor>>

\* the executor thread runs the task, at any point of the reactor's work
CollectResourceData ==
    /\ executor.task = "queued"
    /\ executor' = collect_resource_data(executor, Cur)
    /\ UNCHANGED <<manager_vars, ui_but_executor>>

\* the reactor resumes _poll_resources_async: _apply_resource_data
ApplyResourceData ==
    /\ executor.reactor_in = None
    /\ executor.task = "collected"
    /\ executor' = [executor EXCEPT !.task = "none", !.listed = <<>>]
    /\ UNCHANGED <<manager_vars, ui_but_executor>>

NextPoll ==
    \/ CreateRegistered
    \/ CreateFinished
    \/ DeleteCleanup
    \/ DeleteFinished
    \/ PollResources
    \/ CollectResourceData
    \/ ApplyResourceData
    \/ FireIdleTimeout
    \/ Tick

SpecPoll == InitPoll /\ [][NextPoll]_vars

\* An OutputBuffer under appends of any text, and clear.
Texts == SeqsUpTo(BufferLetters, MaxAppend)

AppendData ==
    \E text \in Texts :
        /\ Len(buffer.appended) + Len(text) <= MaxAppended
        /\ buffer' = OutputBuffer_append_data(buffer, text)
        /\ UNCHANGED all_but_buffer

Clear ==
    /\ buffer' = OutputBuffer_clear(buffer)
    /\ UNCHANGED all_but_buffer

NextBuffer ==
    \/ AppendData
    \/ Clear

SpecBuffer == Init /\ [][NextBuffer]_vars

\* A NotificationEngine under dispatches for two sessions, with sinks that
\* may raise, the do-not-disturb switch and the passing of time.
\* a recorded time is 30 seconds older, up to the cooldown of its event type
Earlier(times) ==
    [k \in DOMAIN times |->
        IF now - times[k] < cooldown_of(k[2]) THEN times[k] - 1 ELSE times[k]]

Older(ages) ==
    [k \in DOMAIN ages |->
        IF ages[k] < cooldown_of(k[2]) THEN ages[k] + 1 ELSE ages[k]]

\* what the dispatch is seen to do: for an event type with a cooldown, the
\* ticks since the last dispatch of the key with do-not-disturb inactive,
\* and since the last one that invoked a sink
SeenDispatch(after) ==
    LET key == <<after.call.session_id, after.call.event_type>>
    IN IF cooldown_of(after.call.event_type) = 0 \/ after.call.dnd THEN after
       ELSE [after EXCEPT !.since_dispatch = Put(@, key, 0),
                          !.since_invoked = IF Len(after.call.invoked) > 0
                                            THEN Put(@, key, 0) ELSE @]

NoSink == {None}
AnySink == {Sinks[i] : i \in DOMAIN Sinks}

DispatchFrom(failures) ==
    \E event_type \in EventType, session_id \in EngineSessions,
       now_time \in DayTimes, failing \in failures :
        /\ engine.dispatched < MaxDispatches
        /\ engine' = SeenDispatch(
                        dispatch(engine, event_type, session_id, now_time, failing))
        /\ UNCHANGED all_but_engine

\* a dispatch; any one of its sinks may raise
Dispatch == DispatchFrom(NoSink \cup AnySink)

\* a dispatch whose sinks do not raise
DispatchDelivered == DispatchFrom(NoSink)

\* the engine is built with a do-not-disturb window in its configuration
Configure ==
    \E dnd \in DndWindows \ {NoWindow} :
        /\ engine = new_engine(HistoryMaxSize, NoWindow)
        /\ engine' = new_engine(HistoryMaxSize, dnd)
        /\ UNCHANGED all_but_engine

SetDnd ==
    \E enabled \in BOOLEAN :
        /\ engine' = set_dnd(engine, enabled)
        /\ UNCHANGED all_but_engine

\* 30 seconds pass
EngineTick ==
    /\ \E k \in DOMAIN engine.since_dispatch :
           engine.since_dispatch[k] < cooldown_of(k[2])
    /\ engine' = [engine EXCEPT !.last_fired = Earlier(@),
                                !.since_dispatch = Older(@),
                                !.since_invoked = Older(@)]
    /\ UNCHANGED all_but_engine

NextEngine ==
    \/ Configure
    \/ Dispatch
    \/ SetDnd

SpecEngine == Init /\ [][NextEngine]_vars

\* The engine's cooldowns: dispatches whose sinks do not raise, the
\* do-not-disturb switch, and the passing of time.
NextCooldown ==
    \/ DispatchDelivered
    \/ SetDnd
    \/ EngineTick

SpecCooldown == Init /\ [][NextCooldown]_vars

\* The whole life of a session under a running event loop: the loop calls a
\* handle that is due, and time passes.
SpecLoop ==
    /\ Init /\ [][Next]_vars
    /\ WF_vars(FireWeakPrompt)
    /\ WF_vars(FireIdleTimeout)
    /\ WF_vars(Tick)

TypeOK ==
    /\ DOMAIN sessions \subseteq SessionIds
    /\ \A sid \in DOMAIN sessions :
        /\ sessions[sid].process_state \in ProcessState
        /\ sessions[sid].attention_state \in AttentionState
        /\ sessions[sid].exit_code \in {NoCode, Code(0), Code(1)}

\* ===================================================================
\* Properties
\* ===================================================================

\* the sessions that exist before and after a step
Kept == (DOMAIN sessions) \cap (DOMAIN sessions')

StatusEvents(trace, sid) ==
    {i \in 1..Len(trace) : trace[i].kind = "status" /\ trace[i].sid = sid}

\* the step is the one that takes the manager to m
Took(m) ==
    /\ sessions' = m.sessions
    /\ scan_partials' = m.scan_partials
    /\ last_scanned_partial' = m.last_scanned_partial
    /\ debounce_until' = m.debounce_until
    /\ weak_prompt_timers' = m.weak_prompt_timers
    /\ idle_timers' = m.idle_timers
    /\ utf8_decoders' = m.utf8_decoders
    /\ scheduled' = m.scheduled
    /\ emitted' = m.emitted
    /\ UNCHANGED <<loop, created>>

\* ------------------------------------------------------------------- C1
ProcessDag ==
    [ps \in ProcessState |->
        CASE ps = "STARTING" -> {"RUNNING", "EXITED"}
          [] ps = "RUNNING" -> {"PAUSED", "EXITED"}
          [] ps = "PAUSED" -> {"RUNNING", "EXITED"}
          [] ps = "EXITED" -> {}]

C1_StepFollowsDag ==
    \A sid \in Kept :
        sessions'[sid].process_state # sessions[sid].process_state
            => sessions'[sid].process_state \in ProcessDag[sessions[sid].process_state]

C1_Rejected ==
    /\ \A from \in ProcessState, to \in ProcessState :
          is_valid_process_transition(from, to) <=> to \in ProcessDag[from]
    /\ \A sid \in DOMAIN sessions, to \in ProcessState :
          to \notin ProcessDag[sessions[sid].process_state]
              => set_process_state(Cur, sid, to).sessions[sid].process_state
                    = sessions[sid].process_state

\* C1: every change of a session's process_state follows an edge of the DAG
\* STARTING->{RUNNING,EXITED}, RUNNING<->PAUSED, {RUNNING,PAUSED}->EXITED, and
\* an attempted self-edge or edge out of EXITED (any edge not in the DAG)
\* leaves process_state unchanged.
C1_ProcessTransitionsFollowDag == [][C1_StepFollowsDag]_vars /\ []C1_Rejected

\* a paused session has exited: two edges of the DAG were taken, and the state
\* is one in which every further attempt is rejected
C1_Witness ==
    \E sid \in DOMAIN sessions :
        /\ sessions[sid].process_state = "EXITED"
        /\ \E i \in StatusEvents(emitted, sid) :
              emitted[i].axis = "process" /\ emitted[i].old = "PAUSED"

\* ------------------------------------------------------------------- C4
AttentionTable ==
    [as \in AttentionState |->
        CASE as = "NONE" -> {"NEEDS_INPUT", "ERROR_SEEN", "IDLE"}
          [] as = "NEEDS_INPUT" -> {"NONE", "ERROR_SEEN"}
          [] as = "ERROR_SEEN" -> {"NONE", "NEEDS_INPUT"}
          [] as = "IDLE" -> {"NONE", "NEEDS_INPUT", "ERROR_SEEN"}]

C4_StepFollowsTable ==
    \A sid \in Kept :
        sessions'[sid].attention_state # sessions[sid].attention_state
            => sessions'[sid].attention_state
                  \in AttentionTable[sessions[sid].attention_state]

C4_Ignored ==
    \A sid \in DOMAIN sessions, to \in AttentionState :
        to \notin AttentionTable[sessions[sid].attention_state]
            => set_attention_state(Cur, sid, to) = Cur

\* C4: every change of a session's attention_state follows an edge of the
\* table NONE<->{NEEDS_INPUT,ERROR_SEEN,IDLE}, NEEDS_INPUT->{NONE,ERROR_SEEN},
\* ERROR_SEEN->{NONE,NEEDS_INPUT}, IDLE->{NONE,NEEDS_INPUT,ERROR_SEEN}; an
\* attempt that is not in the table (a self-edge included) changes nothing of
\* the manager (attention, display state) and calls no status callback.
C4_AttentionTransitionsFollowTable == [][C4_StepFollowsTable]_vars /\ []C4_Ignored

\* a running session has reached ERROR_SEEN and is outside any debounce
\* window: the attempts at ERROR_SEEN and at IDLE are the ones not in the table
C4_Witness ==
    \E sid \in DOMAIN sessions :
        /\ sessions[sid].attention_state = "ERROR_SEEN"
        /\ sessions[sid].process_state = "RUNNING"
        /\ ~is_debounced(Cur, sid)

\* ------------------------------------------------------------------- C2
C2_StepKeepsExited ==
    \A sid \in Kept :
        sessions[sid].process_state = "EXITED"
            => /\ sessions'[sid].process_state = "EXITED"
               /\ sessions'[sid].attention_state = sessions[sid].attention_state
               /\ status(sessions'[sid]) = status(sessions[sid])
               /\ StatusEvents(emitted', sid) = {}

\* C2: once a session's process_state is EXITED, no later operation changes
\* its process_state, its attention_state or its display state, and no
\* operation emits a status callback for it.
C2_ExitedIsFinal == [][C2_StepKeepsExited]_vars

\* ------------------------------------------------------------------- C3
\* C3: in every reachable state of every session, exit_code is set exactly
\* when process_state is EXITED.
C3_ExitCodeIffExited ==
    \A sid \in DOMAIN sessions :
        (sessions[sid].exit_code # NoCode) <=> (sessions[sid].process_state = "EXITED")

\* ------------------------------------------------------------------- C5
C5_StepClears ==
    \A sid \in Kept :
        Took(send_input(Cur, sid))
            => /\ sessions'[sid].attention_state = "NONE"
               /\ sessions[sid].attention_state = "NONE"
                    => StatusEvents(emitted', sid) = {}

\* C5: after send_input the session's attention_state is NONE, at whatever
\* moment the input is sent; when it was NONE already, send_input fires no
\* status callback.
C5_SendInputClearsAttention == [][C5_StepClears]_vars

\* ------------------------------------------------------------------- C6
NonPriorityProcess == {"RUNNING", "PAUSED"}
NonPriorityAttention == {"NONE", "IDLE"}

\* what a valid attempt made now on the session does: a non-priority target
\* is suppressed (nothing of the manager changes), a priority target is applied
SuppressedIffNonPriority(sid) ==
    /\ \A to \in VALID_PROCESS_TRANSITIONS[sessions[sid].process_state] :
          /\ to \in NonPriorityProcess => set_process_state(Cur, sid, to) = Cur
          /\ to \notin NonPriorityProcess
                => set_process_state(Cur, sid, to).sessions[sid].process_state = to
    /\ \A to \in VALID_ATTENTION_TRANSITIONS[sessions[sid].attention_state] :
          /\ to \in NonPriorityAttention => set_attention_state(Cur, sid, to) = Cur
          /\ to \notin NonPriorityAttention
                => set_attention_state(Cur, sid, to).sessions[sid].attention_state = to

AttentionClass == {"error", "prompt", "weak_prompt"}

ScanEvents(trace, sid) ==
    {i \in 1..Len(trace) : trace[i].kind = "scan" /\ trace[i].sid = sid}

AppendEvents(trace, sid) ==
    {i \in 1..Len(trace) : trace[i].kind = "append" /\ trace[i].sid = sid}

\* the last attention-class result among the scanned complete lines
LastAttentionLine(results) ==
    LET hits == {i \in 1..Len(results) : results[i] \in AttentionClass}
    IN IF hits = {} THEN None ELSE results[MaxOf(hits)]

\* what the decider of a chunk does to the session: the final attention, and
\* the attention callbacks made after the scan
DecidedBy(decider, sid, scanned) ==
    LET after == {j \in StatusEvents(emitted, sid) :
                     j > scanned /\ emitted[j].axis = "attention"}
    IN /\ Cardinality(after) <= 1
       /\ decider = "prompt"
            => /\ sessions[sid].attention_state = "NEEDS_INPUT"
               /\ \A j \in after : emitted[j].new # "ERROR"
       /\ decider = "error"
            => /\ sessions[sid].attention_state = "ERROR_SEEN"
               /\ \A j \in after : emitted[j].new # "WAITING"
       /\ decider = "weak_prompt"
            => IF loop
               THEN sid \in DOMAIN weak_prompt_timers /\ after = {}
               ELSE sessions[sid].attention_state = "NEEDS_INPUT"
       /\ decider = None => after = {}

\* C7 as stated: the last line, or the trailing partial, that matches an
\* attention-class pattern decides the attention transition of the chunk.
C7_LastLineOrPartialDecides ==
    \A sid \in DOMAIN sessions :
        \A i \in ScanEvents(emitted, sid) :
            LET partial == Get(scan_partials, sid, <<>>)
                decider == IF Len(partial) > 0 /\ scan(partial) \in AttentionClass
                           THEN scan(partial)
                           ELSE LastAttentionLine(emitted[i].lines)
            IN DecidedBy(decider, sid, i)

\* C7: within one output chunk the last complete line that matches an
\* attention-class pattern (error, prompt, weak_prompt) decides the attention
\* transition, unless the trailing partial was scanned (it differs from the
\* partial scanned last) and matches prompt or weak_prompt, and then the
\* partial decides; a partial that matches error decides nothing.  An error
\* line followed by a prompt line ends in NEEDS_INPUT with no ERROR_SEEN
\* transition and no ERROR callback; the reverse order ends in ERROR_SEEN.
C7_LastMatchWins ==
    \A sid \in DOMAIN sessions :
        \A i \in ScanEvents(emitted, sid) :
            LET decider == IF emitted[i].partial \in {"prompt", "weak_prompt"}
                           THEN emitted[i].partial
                           ELSE LastAttentionLine(emitted[i].lines)
            IN DecidedBy(decider, sid, i)

\* a chunk with an error line followed by a prompt line was delivered: the
\* session is in NEEDS_INPUT after the single callback to WAITING
C7_Witness ==
    \E sid \in DOMAIN sessions :
        \E i \in ScanEvents(emitted, sid) :
            /\ emitted[i].lines = <<"error", "prompt">>
            /\ sessions[sid].attention_state = "NEEDS_INPUT"
            /\ \E j \in StatusEvents(emitted, sid) : j > i /\ emitted[j].new = "WAITING"

\* ------------------------------------------------------------------- C8
\* output of strong patterns only, and lines that hold an escape sequence
StrongChunks ==
    {B \in TextChunks : ~Has(B, "q")}
        \cup {<<l, "A", "m", "n">> : l \in {"e", "p", "c"}}

Transitions(m, sid) ==
    {<<m.emitted[i].old, m.emitted[i].new>> : i \in StatusEvents(m.emitted, sid)}

\* C8: for any output B and any split B = B1 || B2, delivering B1 then B2
\* emits the same set of status transitions and reaches the same final
\* (process_state, attention_state) as delivering B as one chunk.  Weak
\* prompts and debounce are left out: B holds no weak prompt, and the session
\* is not IDLE, so that no transition of the deliveries can be debounced.
C8_SplitChunkEquivalence ==
    \A sid \in DOMAIN sessions :
        (~sessions[sid].pty_process.eof /\ sessions[sid].attention_state # "IDLE")
            => \A B \in StrongChunks :
                 \A k \in 1..(Len(B) - 1) :
                    LET one == on_session_output(Cur, sid, B)
                        two == on_session_output(
                                  on_session_output(Cur, sid, SubSeq(B, 1, k)),
                                  sid, SubSeq(B, k + 1, Len(B)))
                    IN /\ Transitions(two, sid) = Transitions(one, sid)
                       /\ two.sessions[sid].process_state
                            = one.sessions[sid].process_state
                       /\ two.sessions[sid].attention_state
                            = one.sessions[sid].attention_state

\* ------------------------------------------------------------------- C9
\* C9: when one chunk produces both a completion match and a winning
\* attention match, the status callback of the process transition is emitted
\* before the status callback of the attention transition.
C9_ProcessCallbackFirst ==
    \A sid \in DOMAIN sessions :
        \A s \in ScanEvents(emitted, sid) :
            \A i, j \in StatusEvents(emitted, sid) :
                (i > s /\ j > s /\ emitted[i].axis = "process"
                       /\ emitted[j].axis = "attention") => i < j

\* ------------------------------------------------------------------ C10
\* C10 as stated: the append of a chunk precedes its pattern scan, which
\* precedes every status callback the chunk causes.
C10_ScanBeforeEveryCallback ==
    \A sid \in DOMAIN sessions :
        AppendEvents(emitted, sid) # {}
            => \A i \in StatusEvents(emitted, sid) :
                  \E a \in AppendEvents(emitted, sid), s \in ScanEvents(emitted, sid) :
                      a < s /\ s < i

\* C10: the append of a chunk to the OutputBuffer precedes its pattern scan
\* and every status callback the chunk causes, so the buffer holds the chunk
\* whenever such a callback runs; the scan precedes every callback caused by
\* a pattern match, and the one callback that may precede the scan is the
\* clearing of IDLE on the arrival of output.
C10_AppendBeforeScanAndCallbacks ==
    \A sid \in DOMAIN sessions :
        /\ \A s \in ScanEvents(emitted, sid) :
              \E a \in AppendEvents(emitted, sid) : a < s
        /\ \A s \in ScanEvents(emitted, sid) :
              \A i \in StatusEvents(emitted, sid) :
                  /\ \E a \in AppendEvents(emitted, sid) : a < i
                  /\ i < s => /\ emitted[i].old = "IDLE"
                              /\ emitted[i].new = "ACTIVE"
                              /\ emitted[i].axis = "attention"

\* output reached an idle session with a prompt: append, the callback that
\* clears IDLE, the scan, the callback of the prompt, in this order
C10_Witness ==
    \E sid \in DOMAIN sessions :
        \E a \in AppendEvents(emitted, sid), s \in ScanEvents(emitted, sid) :
            \E i, j \in StatusEvents(emitted, sid) :
                /\ a < i /\ i < s /\ s < j
                /\ emitted[i].old = "IDLE"
                /\ emitted[j].new = "WAITING"

\* ------------------------------------------------------------------ C11
EventsOf(trace, kind, sid) ==
    {i \in 1..Len(trace) : trace[i].kind = kind /\ trace[i].sid = sid}

\* the handles of a callback that the loop holds for a session
Pending(callback, sid) ==
    {h \in scheduled : h.callback = callback /\ h.sid = sid}

\* the last operation armed a timer of the callback for the session
Armed(callback, sid) ==
    \E i \in EventsOf(emitted, "call_later", sid) : emitted[i].callback = callback

\* C11: every read of a session's output, and its end of file, cancels the
\* pending weak-prompt timer, so that a weak-prompt timer never fires after
\* output or EOF was processed since it was armed: once a read has been
\* processed, the only weak-prompt timer that may be pending is one the read
\* itself armed; and at most one weak-prompt timer is pending per session.
C11_OutputCancelsWeakPrompt ==
    \A sid \in SessionIds :
        /\ Cardinality(Pending("fire_weak_prompt", sid)) <= 1
        /\ EventsOf(emitted, "read", sid) # {}
              => \/ Pending("fire_weak_prompt", sid) = {}
                 \/ Armed("fire_weak_prompt", sid)

\* ------------------------------------------------------------------ C12
\* the step is the loop calling the due weak-prompt handle h
FiresWeakPrompt(h) ==
    /\ h \in Due("fire_weak_prompt")
    /\ Took(fire_weak_prompt(drop(Cur, h), h.sid))

\* the session is RUNNING under a loop and waits on the weak-prompt timer that
\* its last read armed, with no read, end of file or input since
WaitsOnWeakPrompt(sid) ==
    /\ loop
    /\ sid \in DOMAIN sessions
    /\ sessions[sid].process_state = "RUNNING"
    /\ elapsed[sid].weak_armed
    /\ Pending("fire_weak_prompt", sid) # {}

\* no step raises NEEDS_INPUT for a session that waits on a weak-prompt timer
\* not yet due, unless the step is a read, an input or a scan of the pane
NotBeforeTimeout ==
    \A sid \in Kept :
        (/\ WaitsOnWeakPrompt(sid)
         /\ \A h \in Pending("fire_weak_prompt", sid) : h.at > now
         /\ ~Disturbed(emitted', sid)
         /\ \A text \in LineBodies : ~Took(scan_pane_content(Cur, sid, text))
         /\ sessions[sid].attention_state # "NEEDS_INPUT")
            => sessions'[sid].attention_state # "NEEDS_INPUT"

C12_StepWhateverAttention ==
    /\ NotBeforeTimeout
    /\ \A h \in scheduled :
          (/\ WaitsOnWeakPrompt(h.sid)
           /\ sessions[h.sid].attention_state = elapsed[h.sid].attention_then
           /\ FiresWeakPrompt(h))
              => sessions'[h.sid].attention_state = "NEEDS_INPUT"

\* C12 as stated: under a loop, a RUNNING session whose last read armed the
\* weak-prompt timer and that had no read, end of file or input since has
\* attention NEEDS_INPUT once the timer fires, and not before the timer is
\* due, whatever attention state the read left it in.
C12_WeakPromptWhateverAttention == [][C12_StepWhateverAttention]_vars

C12_StepFromNone ==
    /\ NotBeforeTimeout
    /\ \A h \in scheduled :
          (WaitsOnWeakPrompt(h.sid) /\ FiresWeakPrompt(h))
              => IF sessions[h.sid].attention_state = "NONE"
                 THEN /\ sessions'[h.sid].attention_state = "NEEDS_INPUT"
                      /\ \E i \in StatusEvents(emitted', h.sid) :
                            emitted'[i].new = "WAITING"
                 ELSE /\ sessions'[h.sid] = sessions[h.sid]
                      /\ StatusEvents(emitted', h.sid) = {}

\* the session waits on its weak-prompt timer with attention NONE, at least
\* one tick after the read that armed it
QuietOnWeakPrompt(sid) ==
    /\ WaitsOnWeakPrompt(sid)
    /\ sessions[sid].attention_state = "NONE"
    /\ elapsed[sid].quiet > 0

\* the wait is over: NEEDS_INPUT is reached, or the session was deleted, left
\* RUNNING, got another attention state, or had a read or an input
WeakPromptSettled(sid) ==
    \/ sid \notin DOMAIN sessions
    \/ sessions[sid].attention_state # "NONE"
    \/ sessions[sid].process_state # "RUNNING"
    \/ elapsed[sid].quiet = 0

\* C12: under a loop, a RUNNING session whose last read armed the weak-prompt
\* timer and that has no read, end of file or input since gets attention
\* NEEDS_INPUT from the timer when the timer fires with the attention state
\* NONE, and not before the timer is due; with any other attention state
\* (ERROR_SEEN left by an earlier error line) the timer changes nothing. The
\* loop fires the timer, so a session that keeps waiting with attention NONE
\* does reach NEEDS_INPUT.
C12_WeakPromptFromNone ==
    /\ [][C12_StepFromNone]_vars
    /\ \A sid \in SessionIds : QuietOnWeakPrompt(sid) ~> WeakPromptSettled(sid)

\* the timer of a session that waited with attention NONE has fired and the
\* session has NEEDS_INPUT, with no read or input since the timer was armed
C12_Witness ==
    \E sid \in DOMAIN sessions :
        /\ loop
        /\ elapsed[sid].weak_armed
        /\ elapsed[sid].attention_then = "NONE"
        /\ elapsed[sid].quiet >= idle_prompt_timeout
        /\ Pending("fire_weak_prompt", sid) = {}
        /\ sessions[sid].attention_state = "NEEDS_INPUT"
        /\ \E i \in StatusEvents(emitted, sid) : emitted[i].new = "WAITING"

\* ------------------------------------------------------------------ C13
\* under a loop the session is RUNNING with attention NONE and has had no
\* read and no input for idle_threshold
QuietForThreshold(sid) ==
    /\ loop
    /\ sid \in DOMAIN sessions
    /\ sessions[sid].process_state = "RUNNING"
    /\ sessions[sid].attention_state = "NONE"
    /\ elapsed[sid].quiet >= idle_threshold

\* the session is IDLE, or it did not stay as it was: it was deleted, left
\* RUNNING, got another attention state, or had a read or an input
IdleOrDisturbed(sid) ==
    \/ sid \notin DOMAIN sessions
    \/ sessions[sid].process_state # "RUNNING"
    \/ sessions[sid].attention_state # "NONE"
    \/ elapsed[sid].quiet < idle_threshold

\* C13: under a loop, a registered session that stays RUNNING with attention
\* NONE and has no read and no input for idle_threshold eventually has
\* attention IDLE, whenever it was created and whatever transitions, pauses
\* and resumes came shortly before.
C13_QuietSessionBecomesIdle ==
    \A sid \in SessionIds : QuietForThreshold(sid) ~> IdleOrDisturbed(sid)

\* ------------------------------------------------------------------ C14
\* the end of file of the session was processed and its child has exited
\* with status 0, in either order
ExitedCleanly(sid) ==
    /\ sessions[sid].pty_process.eof
    /\ sessions[sid].pty_process.child = "exited"
    /\ sessions[sid].pty_process.returncode = Code(0)

\* C14: a child that exits with status 0 and whose output matched no error
\* pattern (SpecExit: no read holds an error line) ends with process_state
\* EXITED, display state DONE and exit_code 0, whether the end of file is
\* processed before or after the child's exit status is available.
C14_CleanExitIsDone ==
    \A sid \in DOMAIN sessions :
        ExitedCleanly(sid)
            => /\ sessions[sid].process_state = "EXITED"
               /\ status(sessions[sid]) = "DONE"
               /\ sessions[sid].exit_code = Code(0)

\* ------------------------------------------------------------------ C15
\* the last operation was the processing of the session's end of file
EofProcessed(sid) ==
    /\ sid \in DOMAIN sessions
    /\ sessions[sid].pty_process.eof
    /\ EventsOf(emitted, "read", sid) # {}

\* C15: once the end of file of a session has been processed, no weak-prompt
\* timer and no idle timer is pending for the session, and its scan partial
\* has been dropped.
C15_EofCancelsTimers ==
    \A sid \in SessionIds :
        EofProcessed(sid)
            => /\ Pending("fire_weak_prompt", sid) = {}
               /\ sid \notin DOMAIN weak_prompt_timers
               /\ Pending("fire_idle_timeout", sid) = {}
               /\ sid \notin DOMAIN idle_timers
               /\ sid \notin DOMAIN scan_partials

\* ------------------------------------------------------------------ C16
\* the session was created and has been deleted
Deleted(sid) == sid \in created /\ sid \notin DOMAIN sessions

C17_StepIgnoresFailedWrite ==
    \A sid \in Kept :
        EventsOf(emitted', "raise", sid) # {}
            => /\ EventsOf(emitted', "uncaught", sid) = {}
               /\ UNCHANGED <<sessions, weak_prompt_timers, idle_timers,
                              scheduled, debounce_until>>

\* C17: input sent to a session whose child is dead and whose PTY write
\* fails is ignored on every input path (typed key, Ctrl+C, Ctrl+D, Tab,
\* history pick): no error reaches the caller and no state of the session
\* (attention, timers) changes.
C17_FailedWriteIsIgnored == [][C17_StepIgnoresFailedWrite]_vars

\* ------------------------------------------------------------------ C18
\* the session's cached terminal is the same object after the step
KeptTerminal(sid) ==
    /\ sid \in DOMAIN app.viewer.terminals
    /\ sid \in DOMAIN app'.viewer.terminals
    /\ app'.viewer.terminals[sid] = app.viewer.terminals[sid]

\* how much was fed to the session's cached terminal
Fed(v, sid) == v.heap[v.terminals[sid]].fed

\* the step flushed output of the session while it was in the background
FlushedInBackground(sid) ==
    /\ sid \in DOMAIN app'.call.flushed
    /\ sid # app.active_session_id

Activated(sid) ==
    /\ app'.call.name = "select_session"
    /\ app'.call.sid = sid

C18_StepKeepsAndFeeds ==
    app' # app =>
        \A sid \in ViewerSessions :
            /\ sid \in DOMAIN app.viewer.terminals => KeptTerminal(sid)
            /\ (FlushedInBackground(sid) /\ sid \in DOMAIN app.viewer.terminals)
                   => /\ KeptTerminal(sid)
                      /\ Fed(app'.viewer, sid)
                            = Fed(app.viewer, sid) + Len(app'.call.flushed[sid])
            /\ Activated(sid) => app'.viewer.scroll_offset = 0

C18_StepKeepsOrInvalidates ==
    app' # app =>
        \A sid \in ViewerSessions :
            /\ sid \in DOMAIN app.viewer.terminals
                  => \/ /\ KeptTerminal(sid)
                        /\ sid # app.active_session_id
                              => Fed(app'.viewer, sid) = Fed(app.viewer, sid)
                     \/ /\ sid \notin DOMAIN app'.viewer.terminals
                        /\ FlushedInBackground(sid)
            /\ Activated(sid)
                  => /\ app'.viewer.scroll_offset = 0
                     /\ app'.active_session_id = sid
                     /\ sid \in DOMAIN app'.viewer.terminals
                     /\ app'.viewer.active_terminal = Set(app'.viewer.terminals[sid])
                     /\ IF sid \in DOMAIN app.viewer.terminals
                        THEN /\ KeptTerminal(sid)
                             /\ Fed(app'.viewer, sid) = Fed(app.viewer, sid)
                        ELSE Fed(app'.viewer, sid) = app.output_buffer[sid]

EntersAlt == ~screen.alt_active /\ screen'.alt_active
ExitsAlt == screen.alt_active /\ ~screen'.alt_active

C19_StepSwapsBuffers ==
    /\ EntersAlt
          => /\ screen'.buffer # screen.buffer
             /\ screen'.buffer \notin DOMAIN screen.heap
             /\ screen'.heap[screen'.buffer] = Empty
    /\ ExitsAlt
          => /\ screen'.buffer = Value(screen.at_enter).buffer
             /\ screen'.heap[screen'.buffer] = Value(screen.at_enter).cells

AltCall(name) ==
    /\ screen'.call.name = name
    /\ screen'.call.private
    /\ \A i \in 1..Len(screen'.call.modes) : screen'.call.modes[i] \in AltModes

\* what a screen is, without the observations kept with it
Fields(s) ==
    [buffer |-> s.buffer, heap |-> s.heap, alt_active |-> s.alt_active,
     saved_buffer |-> s.saved_buffer, saved_cursor |-> s.saved_cursor,
     cursor |-> s.cursor]

C20_StepIdempotent ==
    /\ (AltCall("set_mode") /\ screen.alt_active)
          => Fields(screen') = Fields(screen)
    /\ (AltCall("set_mode") /\ ~screen.alt_active)
          => Fields(screen')
               = Fields(set_mode(screen, <<Head(screen'.call.modes)>>, TRUE))
    /\ (AltCall("reset_mode") /\ ~screen.alt_active)
          => Fields(screen') = Fields(screen)

\* C20: alt-screen enter is idempotent and exit without a prior enter is a
\* no-op, for the modes 47, 1047 and 1049 in any mix: an enter while alt is
\* active replaces neither the saved main buffer nor the saved cursor (in a
\* call with several modes, only the first enter acts), and an exit while
\* alt is not active changes neither the buffer nor the cursor.
C20_EnterIdempotentExitNoop == [][C20_StepIdempotent]_vars

\* alt was entered with the cursor saved, a character was drawn, and an
\* enter was then called again while alt was active
C20_Witness ==
    /\ screen.alt_active
    /\ screen.call.name = "set_mode"
    /\ screen.call.private
    /\ \A i \in 1..Len(screen.call.modes) : screen.call.modes[i] \in AltModes
    /\ screen.at_enter # Unset
    /\ Value(screen.at_enter).drawn
    /\ screen.saved_cursor # Unset

\* ------------------------------------------------------------------ C21
\* the last n elements of a sequence
LastN(seq, n) ==
    IF Len(seq) <= n THEN seq ELSE SubSeq(seq, Len(seq) - n + 1, Len(seq))

\* the complete lines of everything appended: all the pieces of the split
\* on newline but the last
CompleteLines(text) == Front(split_lines(text))

\* C21: whatever was appended, lines() holds at most maxlen lines and is
\* the last maxlen complete lines, in order, of the split on newline of the
\* concatenation of everything appended; the piece after the last newline
\* is the partial and is not counted as a line.
C21_LinesAreLastComplete ==
    /\ Len(OutputBuffer_get_lines(buffer)) <= buffer.maxlen
    /\ OutputBuffer_get_lines(buffer)
         = LastN(CompleteLines(buffer.appended), buffer.maxlen)
    /\ buffer.partial = Last(split_lines(buffer.appended))
    /\ buffer.total_lines_received = Len(CompleteLines(buffer.appended))

\* more lines than the capacity were appended, the lines kept differ, and
\* an unfinished line follows
C21_Witness ==
    /\ buffer.total_lines_received > buffer.maxlen
    /\ Len(buffer.partial) > 0
    /\ Len(buffer.lines) = buffer.maxlen
    /\ \A i \in 1..Len(buffer.lines) : Len(buffer.lines[i]) > 0
    /\ \E i, j \in 1..Len(buffer.lines) : buffer.lines[i] # buffer.lines[j]

\* ------------------------------------------------------------------ C22
\* C22: as long as no line has been evicted, all_text() is the
\* concatenation of every text appended so far.
C22_AllTextIsWhatWasAppended ==
    buffer.total_lines_received <= buffer.maxlen
        => OutputBuffer_get_all_text(buffer) = buffer.appended

\* ------------------------------------------------------------------ C23
Dispatched == engine'.dispatched = engine.dispatched + 1

\* the event of the last dispatch
EventOf(call) ==
    [serial |-> call.serial, event_type |-> call.event_type,
     session_id |-> call.session_id]

C23_HoldsMostRecent ==
    /\ Len(engine.history)
         = (IF engine.dispatched < engine.max_size
            THEN engine.dispatched ELSE engine.max_size)
    /\ \A i \in 1..Len(engine.history) :
          engine.history[i].serial = engine.dispatched - Len(engine.history) + i

C23_StepAppendsOne ==
    Dispatched =>
        engine'.history
          = LastN(Append(engine.history, EventOf(engine'.call)), engine.max_size)

\* C23: with capacity K the history holds the most recent events, at most
\* K of them, in insertion order (exactly K after K or more dispatches), and
\* every dispatch appends exactly one event, its own, whether or not its
\* channels are suppressed.
C23_HistoryIsRing == [](C23_HoldsMostRecent) /\ [][C23_StepAppendsOne]_vars

\* more dispatches than the capacity, the last with do-not-disturb active
C23_Witness ==
    /\ engine.dispatched > engine.max_size
    /\ Len(engine.history) = engine.max_size
    /\ engine.call.dnd
    /\ Last(engine.history) = EventOf(engine.call)

\* ------------------------------------------------------------------ C24
C24_StepSilent ==
    (Dispatched /\ engine'.call.dnd) =>
        /\ engine'.call.invoked = <<>>
        /\ ~engine'.call.raised
        /\ engine'.history
             = LastN(Append(engine.history, EventOf(engine'.call)), engine.max_size)
        /\ engine.dispatched < engine.max_size
              => Len(engine'.history) = Len(engine.history) + 1

\* C24: a dispatch made while do-not-disturb is active invokes no sink,
\* whatever the event type, and appends its event to the history.
C24_DndInvokesNoSink == [][C24_StepSilent]_vars

\* a dispatch inside a configured window over midnight
C24_Witness ==
    /\ engine.call.dnd
    /\ engine.dnd_start # Unset
    /\ engine.dnd_end # Unset
    /\ Value(engine.dnd_start) > Value(engine.dnd_end)
    /\ engine.call.event_type = "input_needed"
    /\ Last(engine.history) = EventOf(engine.call)

\* ------------------------------------------------------------------ C25
KeyOf(call) == <<call.session_id, call.event_type>>

\* the key was last seen less than its cooldown ago
Within(ages, key) ==
    /\ key \in DOMAIN ages
    /\ ages[key] < cooldown_of(key[2])

C25_StepByLastDispatch ==
    (Dispatched /\ ~engine'.call.dnd) =>
        (engine'.call.invoked = <<>>
            <=> Within(engine.since_dispatch, KeyOf(engine'.call)))

\* C25 as stated: with do-not-disturb inactive, a dispatch invokes no sink
\* exactly when the same session and event type was dispatched less than
\* the cooldown of the event type before.
C25_CooldownSincePreviousDispatch == [][C25_StepByLastDispatch]_vars

C25_StepByLastInvoked ==
    (Dispatched /\ ~engine'.call.dnd) =>
        /\ engine'.call.invoked = <<>>
              <=> Within(engine.since_invoked, KeyOf(engine'.call))
        /\ engine'.call.event_type \in {"input_needed", "completed"}
              => engine'.call.invoked # <<>>

\* C25: with do-not-disturb inactive, a dispatch invokes no sink exactly
\* when a dispatch for the same session and event type invoked sinks less
\* than the cooldown of the event type before (error: 60 s, session_idle:
\* 120 s); dispatches for another session or event type, and suppressed
\* dispatches, change nothing to this, and input_needed and completed are
\* never suppressed.
C25_CooldownSinceLastInvoked == [][C25_StepByLastInvoked]_vars

\* an error of s1 is suppressed 30 s after one that invoked sinks, an error
\* of s2 having invoked sinks in between
C25_Witness ==
    /\ engine.call.event_type = "error"
    /\ engine.call.session_id = "s1"
    /\ ~engine.call.dnd
    /\ engine.call.invoked = <<>>
    /\ <<"s1", "error">> \in DOMAIN engine.since_invoked
    /\ <<"s2", "error">> \in DOMAIN engine.since_invoked
    /\ engine.since_invoked[<<"s1", "error">>] = 1
    /\ engine.since_invoked[<<"s2", "error">>] = 0
    /\ engine.since_dispatch[<<"s1", "error">>] = 0

\* ------------------------------------------------------------------ C26
\* C26: no error of a sink leaves dispatch, the event of the dispatch is in
\* the history, and a dispatch that invokes sinks invokes every sink routed
\* for its event type.
C26_SinkFailureIsSwallowed ==
    engine.call.serial > 0 =>
        /\ ~engine.call.raised
        /\ Last(engine.history) = EventOf(engine.call)
        /\ engine.call.invoked # <<>>
              => {engine.call.invoked[i] : i \in DOMAIN engine.call.invoked}
                   = DEFAULT_ROUTING[engine.call.event_type]

\* ------------------------------------------------------------------ C27
\* C27: in every state of the viewport auto_scroll is true exactly when the
\* scroll offset is 0, and the scroll offset is at most the history depth
\* of the active terminal (no depth at all without an active terminal).
C27_ScrollWithinHistory ==
    /\ app.viewer.auto_scroll <=> app.viewer.scroll_offset = 0
    /\ app.viewer.scroll_offset <= history_len(app.viewer)

\* ------------------------------------------------------------------ C28
\* the line typed so far to a session
LineOf(a, sid) == Get(a.input_line_buffer, sid, <<>>)

\* the history after the commit of a line
Committed(history, line) ==
    IF Len(line) = 0 THEN history
    ELSE IF Len(history) > 0 /\ Last(history) = line THEN history
    ELSE LastN(Append(history, line), InputHistoryCap)

C28_StepTracksLine ==
    (app'.call.name = "press" /\ app' # app /\ app.active_session_id # None) =>
        LET sid == app.active_session_id
            key == app'.call.key
            line == LineOf(app, sid)
        IN /\ key \in Printable
                => /\ LineOf(app', sid) = Append(line, key)
                   /\ app'.input_history = app.input_history
           /\ key = "enter"
                => /\ LineOf(app', sid) = <<>>
                   /\ app'.input_history[sid]
                        = Committed(app.input_history[sid], strip(line))
           /\ key = "backspace"
                => /\ LineOf(app', sid) = (IF Len(line) > 0 THEN Front(line) ELSE line)
                   /\ app'.input_history = app.input_history
           /\ key = "ctrl+c"
                => /\ LineOf(app', sid) = <<>>
                   /\ app'.input_history = app.input_history
           /\ \A other \in ViewerSessions \ {sid} :
                 /\ LineOf(app', other) = LineOf(app, other)
                 /\ app'.input_history[other] = app.input_history[other]

\* C28: per session, a printable key is added to the line typed, Enter
\* commits the line (stripped), if it is not empty and not the most recent
\* entry, to the session's input history and starts a new line, Backspace
\* removes the last character of the line, Ctrl+C discards the line; the
\* history never exceeds its cap and keeps the newest entry last.
C28_LineBufferAndHistory ==
    /\ [][C28_StepTracksLine]_vars
    /\ [](\A sid \in ViewerSessions : Len(app.input_history[sid]) <= InputHistoryCap)

\* ------------------------------------------------------------------ C29
\* the manager has just been constructed and its one session created
Fresh == Cur = create_session(Constructed, "s1")

StateOf(s) == <<s.process_state, s.attention_state>>

C29_StepSnapshotAsOutput ==
    \A text \in SnapshotTexts :
        (Fresh /\ ~loop /\ Took(scan_pane_content(Cur, "s1", text))) =>
            /\ StateOf(sessions'["s1"])
                 = StateOf(on_session_output(Cur, "s1", text).sessions["s1"])
            /\ \A i \in 1..Len(emitted') : emitted'[i].kind \notin {"append", "output"}

\* C29: the scan of a text as a pane capture leaves a fresh RUNNING/NONE
\* session in the process and attention state that the delivery of the text
\* as one read, with no event loop, leaves a fresh session in; the scan
\* appends nothing to the OutputBuffer and delivers no output.
C29_SnapshotAsOutput == [][C29_StepSnapshotAsOutput]_vars

\* ------------------------------------------------------------------ C30
\* the place of a category in the order of the scan: the categories of
\* SCAN_ORDER by their place there, the others after them by their place in
\* the mapping
Rank(pm, category) ==
    IF \E k \in 1..Len(SCAN_ORDER) : SCAN_ORDER[k] = category
    THEN CHOOSE k \in 1..Len(SCAN_ORDER) : SCAN_ORDER[k] = category
    ELSE Len(SCAN_ORDER)
            + (CHOOSE i \in 1..Len(pm.compiled) : pm.compiled[i].category = category)

\* the pattern of the given index (from 0) of the category matches the line
PatternMatches(pm, category, idx, line) ==
    \E i \in 1..Len(pm.compiled) :
        /\ pm.compiled[i].category = category
        /\ idx + 1 \in 1..Len(pm.compiled[i].patterns)
        /\ \E k \in 1..Len(line) :
              lower(line[k]) = lower(pm.compiled[i].patterns[idx + 1])

CategoryMatches(pm, category, line) ==
    \E idx \in 0..(MaxPatterns - 1) : PatternMatches(pm, category, idx, line)

\* C30: scan(line) returns the match of the first category, in the order
\* error, prompt, completion, progress and then the other categories of the
\* mapping, that has a pattern matching the line, and in that category the
\* first matching pattern in declaration order; a line matching error and
\* prompt is classified error, a line matching prompt and weak_prompt is
\* classified prompt; it returns no match only if no pattern matches.
C30_ScanReturnsFirstMatch ==
    matcher.call.scanned =>
        LET line == matcher.call.line
            result == matcher.call.result
        IN /\ result = Unset
                <=> \A c \in MatcherCategories : ~CategoryMatches(matcher, c, line)
           /\ result # Unset =>
                LET m == Value(result)
                IN /\ m.line = line
                   /\ PatternMatches(matcher, m.category, m.pattern_index, line)
                   /\ \A idx \in 0..(m.pattern_index - 1) :
                         ~PatternMatches(matcher, m.category, idx, line)
                   /\ \A c \in MatcherCategories :
                         CategoryMatches(matcher, c, line)
                            => Rank(matcher, m.category) <= Rank(matcher, c)
           /\ (CategoryMatches(matcher, "error", line)
                 /\ CategoryMatches(matcher, "prompt", line))
                => Value(result).category = "error"
           /\ (CategoryMatches(matcher, "prompt", line)
                 /\ CategoryMatches(matcher, "weak_prompt", line))
                => Value(result).category = "prompt"

\* a mapping with weak_prompt inserted before prompt, a line that both
\* match, by the second pattern of prompt
C30_Witness ==
    /\ matcher.call.scanned
    /\ Len(matcher.compiled) = 2
    /\ matcher.compiled[1].category = "weak_prompt"
    /\ matcher.compiled[2].category = "prompt"
    /\ CategoryMatches(matcher, "weak_prompt", matcher.call.line)
    /\ ~PatternMatches(matcher, "prompt", 0, matcher.call.line)
    /\ matcher.call.result = Set(PatternMatch("prompt", 1, "A", matcher.call.line))

\* ------------------------------------------------------------------ C31
C31_StepStartsThenRuns ==
    \A sid \in DOMAIN sessions' :
        /\ sid \notin DOMAIN sessions
             => /\ sessions'[sid].process_state = "STARTING"
                /\ status(sessions'[sid]) = "STARTING"
        /\ (sid \in DOMAIN sessions
              /\ sessions[sid].process_state = "STARTING"
              /\ sessions'[sid].process_state = "RUNNING")
             => \E i \in 1..Len(emitted') :
                   emitted'[i].kind = "output" /\ emitted'[i].sid = sid

\* C31: a session is created in process_state STARTING, with the display
\* state STARTING, and becomes RUNNING when its first output is processed:
\* it is not RUNNING before any output has arrived.
C31_CreatedStartingRunsOnOutput == [][C31_StepStartsThenRuns]_vars

\* ------------------------------------------------------------------ C32
\* the step is a turn of the health check that found a tmux session gone
FoundGone ==
    /\ health.running
    /\ Len(health'.gone) = Len(health.gone) + 1

C32_StepMarksExited ==
    FoundGone =>
        LET sid == Last(health'.gone)
        IN /\ sid \in DOMAIN sessions' => sessions'[sid].process_state = "EXITED"
           /\ health'.todo = Tail(health.todo)
           /\ ~health'.raised

\* C32: when the health check finds that the tmux session of a session that
\* has not exited, and has a stored tmux session name, no longer exists, the
\* session's process_state becomes EXITED and the check goes on to the
\* sessions left in its list.
C32_GoneSessionMarkedExited == [][C32_StepMarksExited]_vars

\* ------------------------------------------------------------------ C33
\* the step is one of the executor thread
ExecutorStep == executor.task = "queued" /\ executor'.task = "collected"

C33_StepExecutorLocal ==
    ExecutorStep =>
        /\ executor'.call.reads = "local"
        /\ executor'.call.during = None

\* C33: only the reactor thread reads or changes the registry of sessions
\* and the session records: the work run on the executor reads its own data
\* only, and none of it sees the registry while the reactor is in the middle
\* of creating or deleting a session.
C33_ExecutorTouchesOnlyLocalData == [][C33_StepExecutorLocal]_vars

\* ------------------------------------------------------------------ C34
\* the pending output with the chunk of the step added, and its length
WithChunk ==
    Put(app.output_pending, app'.call.sid,
        Append(Get(app.output_pending, app'.call.sid, <<>>), app'.call.chunk.size))

TotalOf(pending) ==
    LET Sum[i \in 0..(2 * MaxOutput)] ==
            IF i = 0 THEN 0
            ELSE Sum[i - 1]
                 + (IF i <= MaxOutput
                    THEN (IF "S1" \in DOMAIN pending /\ i <= Len(pending["S1"])
                          THEN pending["S1"][i] ELSE 0)
                    ELSE (IF "S2" \in DOMAIN pending /\ i - MaxOutput <= Len(pending["S2"])
                          THEN pending["S2"][i - MaxOutput] ELSE 0))
    IN Sum[2 * MaxOutput]

C34_StepBatches ==
    /\ (app'.call.name = "handle_pty_output" /\ app' # app /\ app.app_focused) =>
          IF \/ TotalOf(WithChunk) <= 64
             \/ (app'.call.sid = app.active_session_id /\ app'.call.chunk.redraw)
          THEN /\ app'.output_pending = Empty
               /\ app'.call.flushed = WithChunk
               /\ app'.live_timers = 0
          ELSE /\ app'.output_pending = WithChunk
               /\ app'.call.flushed = Empty
               /\ app'.live_timers = 1
    /\ (app'.call.name = "flush_pending_output" /\ app' # app) =>
          /\ app'.output_pending = Empty
          /\ app.output_pending # Empty => app'.call.flushed = app.output_pending
          /\ app'.live_timers = 0

\* while the app is focused, output that waits has its one timer
C34_PendingHasOneTimer ==
    /\ app.live_timers \in {0, 1}
    /\ (app.app_focused /\ app.output_pending # Empty) => app.live_timers = 1

PendingOf(a, sid) == Get(a.output_pending, sid, <<>>)

\* nothing reaches the viewport while the app stays unfocused, and what
\* arrives is added to what waits
C35_StepHoldsWhileUnfocused ==
    (app' # app /\ ~app.app_focused /\ ~app'.app_focused) =>
        /\ app'.call.flushed = Empty
        /\ app'.call.name # "flush_pending_output"
        /\ app'.call.name # "select_session"
              => app'.viewer.heap = app.viewer.heap
        /\ \A sid \in ViewerSessions :
              /\ Len(PendingOf(app', sid)) >= Len(PendingOf(app, sid))
              /\ SubSeq(PendingOf(app', sid), 1, Len(PendingOf(app, sid)))
                    = PendingOf(app, sid)
        /\ app'.call.name = "handle_pty_output" => app'.output_pending = WithChunk

\* the blur keeps what waits
C35_StepBlurKeeps ==
    (app.app_focused /\ ~app'.app_focused) =>
        /\ app'.output_pending = app.output_pending
        /\ app'.call.flushed = Empty
        /\ app'.viewer = app.viewer

\* the focus flushes all that waits at once: the chunks of the active
\* session go to the terminal shown, the cached terminal of a session in
\* the background is dropped
C35_StepFocusFlushesAll ==
    (~app.app_focused /\ app'.app_focused) =>
        /\ app'.call.name = "on_app_focus"
        /\ app'.output_pending = Empty
        /\ app.output_pending # Empty => app'.call.flushed = app.output_pending
        /\ app'.live_timers = 0
        /\ \A sid \in DOMAIN app.output_pending :
              IF sid = app.active_session_id
              THEN /\ KeptTerminal(sid)
                   /\ Fed(app'.viewer, sid)
                         = Fed(app.viewer, sid) + Len(app.output_pending[sid])
              ELSE sid \notin DOMAIN app'.viewer.terminals

C35_NoTimerWhileUnfocused ==
    ~app.app_focused => (app.live_timers = 0 /\ ~app.output_flush_timer)

C36_EachChunkFedOnce ==
    \A sid \in DOMAIN app.viewer.terminals :
        /\ Fed(app.viewer, sid) <= app.output_buffer[sid]
        /\ PendingOf(app, sid) = <<>>
              => Fed(app.viewer, sid) = app.output_buffer[sid]

\* ------------------------------------------------------------------ C37
\* the step sent SIGSTOP, SIGCONT to the session's child
SentStop(sid) ==
    /\ sessions[sid].pty_process.child = "running"
    /\ sessions'[sid].pty_process.child = "stopped"

SentCont(sid) ==
    /\ sessions[sid].pty_process.child = "stopped"
    /\ sessions'[sid].pty_process.child = "running"

C37_StepStateFollowsSignal ==
    \A sid \in DOMAIN sessions \cap DOMAIN sessions' :
        /\ (SentStop(sid) /\ sessions[sid].process_state = "RUNNING")
              => sessions'[sid].process_state = "PAUSED"
        /\ (SentCont(sid) /\ sessions[sid].process_state = "PAUSED")
              => sessions'[sid].process_state = "RUNNING"

C37_StoppedNeverShowsRunning ==
    \A sid \in DOMAIN sessions :
        sessions[sid].pty_process.child = "stopped"
            => sessions[sid].process_state # "RUNNING"

\* C37: the recorded process_state agrees with the signal sent to the
\* child: after pause_session sent SIGSTOP to a live RUNNING session its
\* process_state is PAUSED, after resume_session sent SIGCONT to a PAUSED
\* session it is RUNNING, and no session shows RUNNING while its child is
\* stopped by pause_session.
C37_StateAgreesWithSignal ==
    /\ [][C37_StepStateFollowsSignal]_vars
    /\ [](C37_StoppedNeverShowsRunning)

\* ------------------------------------------------------------------ C38
\* the calls of the status callback for the session, in the order they
\* were made by the step
StatusCalls(sid) ==
    LET Calls[i \in 0..Len(emitted')] ==
            IF i = 0 THEN <<>>
            ELSE IF emitted'[i].kind = "status" /\ emitted'[i].sid = sid
                 THEN Append(Calls[i - 1], emitted'[i])
                 ELSE Calls[i - 1]
    IN Calls[Len(emitted')]

\* an axis of the session changed in the step
AxisChanged(sid) ==
    \/ sessions'[sid].process_state # sessions[sid].process_state
    \/ sessions'[sid].attention_state # sessions[sid].attention_state

C38_StepCallbackIffDisplayChange ==
    \A sid \in DOMAIN sessions \cap DOMAIN sessions' :
        LET calls == StatusCalls(sid)
        IN /\ \A i \in DOMAIN calls : calls[i].old # calls[i].new
           /\ \A i \in DOMAIN calls :
                 calls[i].old = IF i = 1 THEN status(sessions[sid])
                                ELSE calls[i - 1].new
           /\ calls # <<>> => calls[Len(calls)].new = status(sessions'[sid])
           /\ calls = <<>> => status(sessions'[sid]) = status(sessions[sid])
           /\ (calls = <<>> /\ AxisChanged(sid))
                 => Get(debounce_until', sid, 0) = Get(debounce_until, sid, 0)

\* C38: the status callback is called exactly when a change of state
\* changes the display state of the session: each call has an old display
\* state different from the new one, the new one is the display state the
\* session has at the call, and a change of one axis that leaves the
\* display state as it was makes no call and starts no debounce window.
C38_CallbackIffDisplayChange == [][C38_StepCallbackIffDisplayChange]_vars

\* the attention of a paused session changed: no call was made and no
\* debounce window runs
C38_Witness ==
    /\ "s1" \in DOMAIN sessions
    /\ sessions["s1"].process_state = "PAUSED"
    /\ sessions["s1"].attention_state # "NONE"
    /\ elapsed["s1"].any = 0
    /\ elapsed["s1"].display > 0
    /\ Get(debounce_until, "s1", 0) = 0
    /\ emitted # <<>>
    /\ \A i \in DOMAIN emitted : emitted[i].kind # "status"

\* ------------------------------------------------------------------ C39
\* C39: whatever private modes 47, 1047, 1048 and 1049 are set and reset
\* and however the screen is resized, the screen is in alt exactly when it
\* holds a saved main buffer, and the saved buffer it holds is never the
\* buffer it shows.
C39_AltIffSavedBuffer ==
    /\ screen.alt_active <=> screen.saved_buffer # Unset
    /\ screen.saved_buffer # Set(screen.buffer)

\* in alt, the screen was narrowed and the saved main buffer, which held a
\* character in its last column, was clipped
C39_Witness ==
    /\ screen.call.name = "resize"
    /\ screen.alt_active
    /\ screen.saved_buffer # Unset
    /\ screen.columns < ScreenColumns
    /\ screen.at_enter # Unset
    /\ (ScreenColumns - 1) \in DOMAIN Value(screen.at_enter).cells
    /\ DOMAIN screen.heap[Value(screen.saved_buffer)] = 0..(screen.columns - 1)

\* ------------------------------------------------------------------ C40
\* C40: the active session id is None or the id of a session the manager
\* has registered, whatever sessions are created and killed, however the
\* active session is switched, and whichever session is picked in the
\* notification history or among the search results.
C40_ActiveIsRegistered ==
    app.active_session_id = None \/ app.active_session_id \in listed(app)

=============================================================================
